---------------------------- MODULE Spec2Model ----------------------------
(***************************************************************************)
(* A model of inspect4py's code inspector: the command-line orchestrator   *)
(* (src/code_inspector.py, main), the per-file inspector (CodeInspection)  *)
(* and the utilities of src/code_inspector/utils.py.                       *)
(*                                                                         *)
(* Python strings are modelled as sequences of chunks (short strings that  *)
(* are never split further): "m.py" is <<"m", ".", "py">>.  The chunk      *)
(* alphabets are chosen so that no searched pattern straddles a chunk      *)
(* boundary, hence `x in s`, split, startswith and endswith on the Python  *)
(* strings agree with the sequence operations below.                       *)
(***************************************************************************)
EXTENDS Integers, Sequences, FiniteSets, TLC

VARIABLES
    \* ---- main(): the orchestrator ----
    w_pc,         \* position in main: "idle" | "start" | "walk" | "done" | "exited" | "crashed"
    w_args,       \* the command line: input kind, flags, single input file
    w_visited,    \* directory entries os.walk has yielded so far, in order
    w_dir_info,   \* dir_info: output-subdirectory key -> list of file reports (by source path)
    w_files,      \* the output tree: output path -> source whose content it holds
    w_log,        \* diagnostics printed
    w_exit,       \* process exit status, NoExit while running
    \* ---- prune_json ----
    p_pc, p_tree, p_once, p_twice,
    \* ---- call names of one scope: rendering and contextual resolution ----
    r_pc,         \* "idle" | "source" | "done"
    r_file,       \* the inspected file: fileNameBase, class table, import statements, sibling files
    r_scope,      \* the scope inspected: kind, enclosing class, statements
    r_deps,       \* self.depInfo
    r_out,        \* the outcome: the exception raised ("" if none) and the scope's calls
    \* ---- _ast_if_main: main-entry detection ----
    m_pc,         \* "idle" | "source" | "done"
    m_fb,         \* fileInfo["fileNameBase"]
    m_ifs,        \* the top-level ast.If nodes of the file, in order
    m_info,       \* main_info
    \* ---- the classifier over the reports of a directory ----
    c_pc,         \* "idle" | "reports" | "done" | "raised"
    c_dir,        \* the source files of the directory (in os.walk order) and its setup file
    c_next,       \* index in c_dir.files of the file the walk inspects next
    c_dir_info,   \* dir_info: the file reports appended so far
    c_main_files, \* main_files of extract_software_invocation
    c_secondary,  \* m_secondary
    c_out,        \* software_invocation_info
    \* ---- one utility applied to inputs chosen step by step ----
    u_pc,         \* "idle" | "input" | "done"
    u_in,         \* the input built so far, or the last input given
    u_out         \* the outcome of the utility

walkVars  == <<w_pc, w_args, w_visited, w_dir_info, w_files, w_log, w_exit>>
pruneVars == <<p_pc, p_tree, p_once, p_twice>>
callVars  == <<r_pc, r_file, r_scope, r_deps, r_out>>
mainVars  == <<m_pc, m_fb, m_ifs, m_info>>
classVars == <<c_pc, c_dir, c_next, c_dir_info, c_main_files, c_secondary, c_out>>
unitVars  == <<u_pc, u_in, u_out>>
vars == <<walkVars, pruneVars, callVars, mainVars, classVars, unitVars>>

\* what each component leaves alone
otherThanWalk     == <<pruneVars, callVars, mainVars, classVars, unitVars>>
otherThanPrune    == <<walkVars, callVars, mainVars, classVars, unitVars>>
otherThanCalls    == <<walkVars, pruneVars, mainVars, classVars, unitVars>>
otherThanMain     == <<walkVars, pruneVars, callVars, classVars, unitVars>>
otherThanClassify == <<walkVars, pruneVars, callVars, mainVars, unitVars>>
otherThanUnit     == <<walkVars, pruneVars, callVars, mainVars, classVars>>

-----------------------------------------------------------------------------
(* Python str operations on chunk sequences: a str is the sequence of the
   chunks it is written with, and its text is the characters of its chunks *)

\* the characters of one chunk
CharsOf(chunk) == [i \in 1..Len(chunk) |-> SubSeq(chunk, i, i)]

\* the characters of s
RECURSIVE Explode(_)
Explode(s) == IF s = <<>> THEN <<>> ELSE CharsOf(Head(s)) \o Explode(Tail(s))

\* `sub in s` on the characters
InChars(t, p) == \E i \in 0..(Len(t) - Len(p)) : SubSeq(t, i + 1, i + Len(p)) = p

\* `sub in s`: the substring test
Contains(s, sub) == InChars(Explode(s), Explode(sub))

\* s.startswith(p)
StartsWithChars(t, q) == Len(q) <= Len(t) /\ SubSeq(t, 1, Len(q)) = q
StartsWith(s, p) == StartsWithChars(Explode(s), Explode(p))

\* s.endswith(p)
EndsWithChars(t, q) == Len(q) <= Len(t) /\ SubSeq(t, Len(t) - Len(q) + 1, Len(t)) = q
EndsWith(s, p) == EndsWithChars(Explode(s), Explode(p))

\* index of the first chunk c in s, 0 when absent
FirstIndex(s, c) ==
    IF \E i \in 1..Len(s) : s[i] = c
    THEN CHOOSE i \in 1..Len(s) : s[i] = c /\ \A j \in 1..(i - 1) : s[j] # c
    ELSE 0

\* s.split(c): the list of the pieces of s between the chunks c
RECURSIVE Split(_, _)
Split(s, c) ==
    LET i == FirstIndex(s, c)
    IN  IF i = 0 THEN <<s>>
        ELSE <<SubSeq(s, 1, i - 1)>> \o Split(SubSeq(s, i + 1, Len(s)), c)

\* c.join(parts)
RECURSIVE Join(_, _)
Join(parts, c) ==
    IF Len(parts) = 0 THEN <<>>
    ELSE IF Len(parts) = 1 THEN parts[1]
    ELSE parts[1] \o <<c>> \o Join(Tail(parts), c)

\* `x in s` for a list s
InSeq(x, s) == \E i \in 1..Len(s) : s[i] = x

\* os.path.basename of a directory given as the list of its components
DirBaseName(subdir) == subdir[Len(subdir)]

-----------------------------------------------------------------------------
(* Bounds of the model *)

\* directory entries one walk yields
MaxEntries == 2

\* wrappings of one leaf in a generated JSON tree
MaxDepth == 4

\* nesting of a generated call-target expression
MaxExprDepth == 2

\* declared bases of the class whose method is inspected
MaxBases == 2

\* import statements of a generated file
MaxImports == 2

\* top-level conditionals of a generated file
MaxIfs == 2

\* statements in the bodies of the conditionals of a generated file, in all
MaxStmts == 2

\* source files of a generated directory
MaxFiles == 2

\* service checks in a row
MaxChecks == 3

\* records of a generated record list
MaxRecords == 3

\* dots in a generated file name
MaxDots == 2

\* nested definitions written in one definition, and how deep they nest
MaxNested == 2
MaxNestDepth == 2

\* top-level functions of the module a wildcard import names
MaxSymbols == 2

\* calls made by one function of a module of the aggregate call graph
MaxLocal == 1

\* longest control flow text given to _formatFlow
MaxFlowLen == 4

-----------------------------------------------------------------------------
(* prune_json (utils.py): JSON trees *)

\* A JSON tree: t is "leaf", "dict" or "list"; v the leaf's Python literal;
\* keys the keys of a dict in insertion order; items the values of a dict (in
\* the order of keys) or the elements of a list.
Leaf(v)        == [t |-> "leaf", v |-> v, keys |-> <<>>, items |-> <<>>]
Dict(ks, its)  == [t |-> "dict", v |-> "", keys |-> ks, items |-> its]
List(its)      == [t |-> "list", v |-> "", keys |-> <<>>, items |-> its]

\* the leaves of the model: an empty and a non-empty string (0, None and False
\* are falsy as '' is; a non-zero number is truthy as 'x' is)
LeafValues == {"''", "'x'"}

\* Python truth value: `if b`
Truthy(j) ==
    IF j.t = "leaf" THEN j.v \notin {"''", "0", "None", "False"}
    ELSE Len(j.items) > 0

\* list(filter(None, s))
FilterTruthy(s) == SelectSeq(s, Truthy)

RECURSIVE PruneJson(_)
RECURSIVE PruneItemsFrom(_, _)
RECURSIVE MapSeq(_, _)

\* [prune_json(i) for i in b]
MapSeq(s, i) ==
    IF i > Len(s) THEN <<>> ELSE <<PruneJson(s[i])>> \o MapSeq(s, i + 1)

\* The value prune_json keeps for the truthy value b of a key, or Dropped
Dropped == [t |-> "dropped", v |-> "", keys |-> <<>>, items |-> <<>>]

KeptValueMutant(b) ==
    IF b.t = "dict" THEN PruneJson(b)
    ELSE IF b.t = "list"
         THEN LET aux_list == FilterTruthy(MapSeq(b.items, 1))
              IN  IF Len(aux_list) > 0 THEN List(aux_list) ELSE Dropped
    ELSE b

\* lines 55-65: the branch of `if b` on the kind of b
KeptValue(b) ==
    IF b.t = "dict"
    THEN LET aux_dict == PruneJson(b)
         IN  IF Truthy(aux_dict) THEN aux_dict ELSE Dropped
    ELSE IF b.t = "list"
         THEN LET aux_list == FilterTruthy(MapSeq(b.items, 1))
              IN  IF Len(aux_list) > 0 THEN List(aux_list) ELSE Dropped
    ELSE b

\* lines 54-65: the loop over json_dict.items() from the i-th item on, as the
\* pair <<keys, values>> of final_dict
PruneItemsFrom(j, i) ==
    IF i > Len(j.keys) THEN <<<<>>, <<>>>>
    ELSE LET rest == PruneItemsFrom(j, i + 1)
             b    == j.items[i]
             kept == IF Truthy(b) THEN KeptValue(b) ELSE Dropped
         IN  IF kept = Dropped THEN rest
             ELSE <<<<j.keys[i]>> \o rest[1], <<kept>> \o rest[2]>>

\* prune_json(json_dict), lines 42-66
PruneJson(j) ==
    IF j.t # "dict" THEN j
    ELSE LET r == PruneItemsFrom(j, 1) IN Dict(r[1], r[2])

RECURSIVE Depth(_)
RECURSIVE MaxDepthFrom(_, _)
MaxDepthFrom(s, i) ==
    IF i > Len(s) THEN 0
    ELSE LET d == Depth(s[i]) r == MaxDepthFrom(s, i + 1) IN IF d > r THEN d ELSE r
Depth(j) == IF j.t = "leaf" \/ Len(j.items) = 0 THEN 0 ELSE 1 + MaxDepthFrom(j.items, 1)

\* the trees a generated tree is combined with
SmallTrees == {Leaf(v) : v \in LeafValues} \cup {Dict(<<>>, <<>>), List(<<>>)}

IdlePrune ==
    /\ p_pc = "idle" /\ p_tree = Leaf("''") /\ p_once = Leaf("''") /\ p_twice = Leaf("''")

InitPruneVars ==
    /\ p_pc = "build" /\ p_tree \in SmallTrees
    /\ p_once = Leaf("''") /\ p_twice = Leaf("''")

\* the input grows: {k: tree}
WrapDict(k) ==
    /\ p_pc = "build" /\ Depth(p_tree) < MaxDepth
    /\ p_tree' = Dict(<<k>>, <<p_tree>>)
    /\ UNCHANGED <<p_pc, p_once, p_twice>>
    /\ UNCHANGED otherThanPrune

\* the input grows: {"a": tree, "b": other}
WrapDictWith(other) ==
    /\ p_pc = "build" /\ Depth(p_tree) < MaxDepth
    /\ p_tree' = Dict(<<"a", "b">>, <<p_tree, other>>)
    /\ UNCHANGED <<p_pc, p_once, p_twice>>
    /\ UNCHANGED otherThanPrune

\* the input grows: [tree]
WrapList ==
    /\ p_pc = "build" /\ Depth(p_tree) < MaxDepth
    /\ p_tree' = List(<<p_tree>>)
    /\ UNCHANGED <<p_pc, p_once, p_twice>>
    /\ UNCHANGED otherThanPrune

\* the input grows: [other, tree]
WrapListWith(other) ==
    /\ p_pc = "build" /\ Depth(p_tree) < MaxDepth
    /\ p_tree' = List(<<other, p_tree>>)
    /\ UNCHANGED <<p_pc, p_once, p_twice>>
    /\ UNCHANGED otherThanPrune

\* prune_json is applied to the input, and again to its result
ApplyPrune ==
    /\ p_pc = "build"
    /\ p_once' = PruneJson(p_tree)
    /\ p_twice' = PruneJson(PruneJson(p_tree))
    /\ p_pc' = "pruned"
    /\ UNCHANGED p_tree
    /\ UNCHANGED otherThanPrune

NextPrune ==
    \/ WrapDict("a")
    \/ \E o \in SmallTrees : WrapDictWith(o)
    \/ WrapList
    \/ \E o \in SmallTrees : WrapListWith(o)
    \/ ApplyPrune

-----------------------------------------------------------------------------
(* Call-target expressions and CodeInspection._get_func_name *)

\* An expression: k is "Name" (id), "Attribute" (id is attr, sub its value),
\* "Call" (sub its func), "Subscript" (sub its value) or "Other" (a constant,
\* a lambda, ...).
Name(id)          == [k |-> "Name", id |-> id, sub |-> <<>>]
Attribute(v, a)   == [k |-> "Attribute", id |-> a, sub |-> <<v>>]
Call(f)           == [k |-> "Call", id |-> "", sub |-> <<f>>]
Subscript(v)      == [k |-> "Subscript", id |-> "", sub |-> <<v>>]
OtherExpr         == [k |-> "Other", id |-> "", sub |-> <<>>]

\* Python's None where a string is expected
None == <<"<None>">>

RECURSIVE AttrChain(_)
\* lines 393-398: attr = module.attr + "." + attr while module is an Attribute
AttrChain(e) ==
    IF e.sub[1].k = "Attribute" THEN AttrChain(e.sub[1]) \o <<".", e.id>> ELSE <<e.id>>

RECURSIVE AttrRoot(_)
\* the module the loop of lines 396-398 ends on
AttrRoot(e) == IF e.sub[1].k = "Attribute" THEN AttrRoot(e.sub[1]) ELSE e.sub[1]

RECURSIVE GetFuncName(_)
\* _get_func_name(func), lines 387-432; a func that is neither a Name nor an
\* Attribute falls off the end of the method: None
GetFuncName(func) ==
    IF func.k = "Name" THEN <<func.id>>
    ELSE IF func.k = "Attribute"
    THEN LET attr   == AttrChain(func)
             module == AttrRoot(func)
         IN  IF module.k = "Name" THEN <<module.id, ".">> \o attr
             ELSE IF module.k = "Call"
             THEN LET inner == GetFuncName(module.sub[1])
                  IN  IF inner = None THEN <<>>   \* TypeError, caught at line 414
                      ELSE inner \o <<"()", ".">> \o attr
             ELSE IF module.k = "Subscript"
             THEN LET inner == GetFuncName(module.sub[1])
                  IN  IF inner = None \/ inner = <<>> THEN <<"[]", ".">> \o attr
                      ELSE inner \o <<"[]", ".">> \o attr
             ELSE <<>>
    ELSE None

-----------------------------------------------------------------------------
(* The statements of a scope and the raw call lists *)

\* A statement of a scope: an expression statement calling func, an
\* assignment of the result of calling func to target, or an assignment to
\* target of a value that is not a call (kind "value": func is the value).
ExprStmt(func)             == [kind |-> "expr", target |-> OtherExpr, func |-> func]
AssignStmt(target, func)   == [kind |-> "assign", target |-> target, func |-> func]
ValueAssign(target, value) == [kind |-> "value", target |-> target, func |-> value]

\* node.value of a statement
StmtValue(st) == IF st.kind = "value" THEN st.func ELSE Call(st.func)

RECURSIVE CallFuncAt(_, _, _)
\* the func of the Call node at depth d below e, where e sits at depth de
\* (<<>> when there is none): ast.walk is breadth-first
CallFuncAt(e, de, d) ==
    IF de > d \/ e.k \in {"Name", "Other"} THEN <<>>
    ELSE IF e.k = "Call" /\ de = d THEN <<e.sub[1]>>
    ELSE CallFuncAt(e.sub[1], de + 1, d)

RECURSIVE ExprDepth(_)
ExprDepth(e) == IF e.sub = <<>> THEN 0 ELSE 1 + ExprDepth(e.sub[1])

RECURSIVE LevelFuncs(_, _, _)
\* the funcs of the Call nodes of stmts[i..] at depth d: those of the target
\* of a statement stand before those of its value
LevelFuncs(stmts, i, d) ==
    IF i > Len(stmts) THEN <<>>
    ELSE CallFuncAt(stmts[i].target, 0, d) \o CallFuncAt(StmtValue(stmts[i]), 0, d)
         \o LevelFuncs(stmts, i + 1, d)

RECURSIVE WalkFuncs(_, _, _)
\* [node.func for node in ast.walk(f) if isinstance(node, ast.Call)], line 360
WalkFuncs(stmts, d, maxd) ==
    IF d > maxd THEN <<>> ELSE LevelFuncs(stmts, 1, d) \o WalkFuncs(stmts, d + 1, maxd)

RECURSIVE MaxStmtDepth(_, _)
MaxStmtDepth(stmts, i) ==
    IF i > Len(stmts) THEN 0
    ELSE LET v == ExprDepth(StmtValue(stmts[i]))
             t == ExprDepth(stmts[i].target)
             a == IF t > v THEN t ELSE v
             b == MaxStmtDepth(stmts, i + 1)
         IN  IF a > b THEN a ELSE b

RECURSIVE RenderAll(_, _)
\* [self._get_func_name(func) for func in funcs_calls]
RenderAll(funcs, i) ==
    IF i > Len(funcs) THEN <<>> ELSE <<GetFuncName(funcs[i])>> \o RenderAll(funcs, i + 1)

RECURSIVE Dedupe(_, _)
\* list(dict.fromkeys(s)): the first occurrence of every element, in order
Dedupe(s, i) ==
    IF i > Len(s) THEN <<>>
    ELSE IF \E j \in 1..(i - 1) : s[j] = s[i] THEN Dedupe(s, i + 1)
    ELSE <<s[i]>> \o Dedupe(s, i + 1)

NotNone(x) == x # None

\* funcs_info[f.name]["calls"] before resolution, lines 360-366
FunctionRawCalls(stmts) ==
    SelectSeq(Dedupe(RenderAll(WalkFuncs(stmts, 0, MaxStmtDepth(stmts, 1)), 1), 1), NotNone)

IsExprStmt(st)   == st.kind = "expr"
IsAssignStmt(st) == st.kind = "assign"

RECURSIVE StmtFuncs(_, _)
StmtFuncs(stmts, i) ==
    IF i > Len(stmts) THEN <<>> ELSE <<stmts[i].func>> \o StmtFuncs(stmts, i + 1)

\* body_calls of inspect_body, lines 194-205: the calls of the assignments,
\* then those of the expression statements; nothing is filtered
BodyRawCalls(stmts) ==
    RenderAll(StmtFuncs(SelectSeq(stmts, IsAssignStmt), 1), 1)
    \o RenderAll(StmtFuncs(SelectSeq(stmts, IsExprStmt), 1), 1)

\* d[k] = v on a dict kept as the list of its <<key, value>> pairs
DictPut(d, k, v) ==
    IF \E i \in 1..Len(d) : d[i][1] = k
    THEN [i \in 1..Len(d) |-> IF d[i][1] = k THEN <<k, v>> ELSE d[i]]
    ELSE Append(d, <<k, v>>)

Raised(exc) == [raised |-> exc, out |-> <<>>]
Appended(names) == [raised |-> "", out |-> names]

IsSelf(e) == e.k = "Name" /\ e.id = "self"

RECURSIVE StoreVars(_, _, _)
\* store_vars_calls after the first i statements, [raised, out]: target name
\* -> call name for every assignment of a call (lines 373-377 of
\* _f_definitions, 195-200 of inspect_body) and, in a function or a method,
\* target.id -> "self" for every assignment of the name self (lines 370-372:
\* a target that is not a name has no id, AttributeError)
StoreVars(stmts, i, body) ==
    IF i = 0 THEN Appended(<<>>)
    ELSE LET before == StoreVars(stmts, i - 1, body)
             st     == stmts[i]
         IN  IF before.raised # "" THEN before
             ELSE IF st.kind = "assign"
             THEN Appended(DictPut(before.out, GetFuncName(st.target), GetFuncName(st.func)))
             ELSE IF st.kind = "value" /\ ~body /\ IsSelf(st.func)
             THEN IF st.target.k = "Name"
                  THEN Appended(DictPut(before.out, <<st.target.id>>, <<"self">>))
                  ELSE Raised("AttributeError")
             ELSE before

-----------------------------------------------------------------------------
(* Dependencies: inspect_dependencies and type_module *)

\* m.replace(".", "/")
DotsToSlashes(m) == [i \in 1..Len(m) |-> IF m[i] = "." THEN "/" ELSE m[i]]

\* type_module(m, i, path), utils.py lines 284-296; existing is the set of the
\* files below the directory of the inspected file, as paths relative to it
TypeModule(m, i, existing) ==
    LET file_module == IF m # <<>> THEN DotsToSlashes(m) \o <<"/">> \o i \o <<".", "py">>
                       ELSE i \o <<".", "py">>
    IN  IF file_module \in existing THEN "internal" ELSE "external"

\* An import statement with one imported name: from is the module of a
\* from-import (<<>> for a plain import, whose module is the empty list), name
\* the dotted name imported, asname the alias (None when absent).
RECURSIVE InspectDependencies(_, _, _)
\* inspect_dependencies, lines 219-249, for statements without a wildcard
InspectDependencies(imports, i, existing) ==
    IF i > Len(imports) THEN <<>>
    ELSE LET n           == imports[i]
             import_name == Split(n.name, ".")[1]
         IN  <<[from_module |-> n.from, import |-> import_name, alias |-> n.asname,
                type |-> TypeModule(n.from, import_name, existing)]>>
             \o InspectDependencies(imports, i + 1, existing)

-----------------------------------------------------------------------------
(* CodeInspection._dfs and CodeInspection._fill_call_name *)

\* the attributes of a Python str among the method names of the model
StrAttributes == {<<"format">>}

\* hasattr(ext, rest_call_name): ext is the name of the base, a str
HasAttr(ext, name) == name \in StrAttributes


\* _dfs over extend[i..], lines 434-455.  path holds the classes whose bases
\* are being searched: entering one of them again repeats the same search
\* without end, which Python ends with RecursionError.
RECURSIVE Dfs(_, _, _, _, _, _)
DfsUnknownBase(extend, i, m, fb, classes, path) ==
    \* line 451: classes_info[ext] for an ext that is not in classes_info
    Raised("KeyError")

\* line 438: the match on a class of the file
DfsFirstMatch(ext, m, fb) == Appended(<<fb \o <<".">> \o ext \o <<".">> \o m>>)

Dfs(extend, i, m, fb, classes, path) ==
    IF i > Len(extend) THEN Appended(<<>>)
    ELSE LET ext == extend[i]
         IN  IF ext \in DOMAIN classes
             THEN IF InSeq(m, classes[ext].methods)
                  THEN DfsFirstMatch(ext, m, fb)
                  ELSE IF ext \in path THEN Raised("RecursionError")
                  ELSE LET r == Dfs(classes[ext].extend, 1, m, fb, classes, path \cup {ext})
                       IN  IF r.raised # "" \/ r.out # <<>> THEN r
                           ELSE Dfs(extend, i + 1, m, fb, classes, path)
             ELSE IF HasAttr(ext, m) THEN Appended(<<ext \o <<".">> \o m>>)
             ELSE DfsUnknownBase(extend, i, m, fb, classes, path)

\* call_name.split(".")[0] and '.'.join(call_name.split(".")[1:])
ModuleOf(call_name) == Split(call_name, ".")[1]
RestOf(call_name)   == Join(Tail(Split(call_name, ".")), ".")

RECURSIVE DepLoop(_, _, _, _, _)
\* lines 496-517: the names the first loop over self.depInfo appends; the
\* branch of line 502 (a plain import of the leading segment) has no break
DepLoop(deps, i, module_call_name, call_name, rest) ==
    IF i > Len(deps) THEN <<>>
    ELSE LET dep == deps[i]
         IN  IF dep.import = module_call_name
             THEN IF dep.from_module # <<>>
                  THEN <<dep.from_module \o <<".">> \o call_name>>
                  ELSE <<call_name>> \o DepLoop(deps, i + 1, module_call_name, call_name, rest)
             ELSE IF dep.alias # None /\ dep.alias # <<>> /\ dep.alias = module_call_name
                  THEN IF dep.from_module # <<>>
                       THEN <<dep.from_module \o <<".">> \o dep.import \o rest>>
                       ELSE <<dep.import \o rest>>
             ELSE DepLoop(deps, i + 1, module_call_name, call_name, rest)

RECURSIVE WildcardLoop(_, _, _)
\* lines 521-530: the whole name is a symbol imported from a module
WildcardLoop(deps, i, call_name) ==
    IF i > Len(deps) THEN <<>>
    ELSE IF deps[i].import = call_name /\ deps[i].from_module # <<>>
         THEN <<deps[i].from_module \o <<".">> \o call_name>>
    ELSE WildcardLoop(deps, i + 1, call_name)

RECURSIVE NestedLoop(_, _, _, _)
\* lines 542-554: the name is a nested function of a definition of the scope table
NestedLoop(table, i, call_name, prefix) ==
    IF i > Len(table) THEN <<>>
    ELSE IF call_name \in table[i].functions
         THEN <<prefix \o table[i].name \o <<".">> \o call_name>>
    ELSE NestedLoop(table, i + 1, call_name, prefix)

\* lines 556-580 (rules 8 and 9)
QualifiedOrRaw(call_name, module_call_name, rest, c) ==
    IF module_call_name # <<>> /\ rest # <<>> /\ ~Contains(call_name, c.fb)
    THEN LET m == Split(rest, ".")[2]
         IN  IF module_call_name \in DOMAIN c.classes
                /\ InSeq(m, c.classes[module_call_name].methods)
             THEN Appended(<<c.fb \o <<".">> \o call_name>>)
             ELSE IF module_call_name \in DOMAIN c.classes
             THEN LET r == Dfs(c.classes[module_call_name].extend, 1, m, c.fb, c.classes, {})
                  IN  IF r.raised # "" THEN r
                      ELSE IF r.out # <<>>
                      THEN Appended(r.out \o <<c.fb \o <<".">> \o call_name>>)
                      ELSE IF call_name # <<"super">> THEN Appended(<<call_name>>)
                      ELSE Appended(<<>>)
             ELSE Appended(<<call_name>>)
    ELSE IF call_name # <<"super">> THEN Appended(<<call_name>>)
    ELSE Appended(<<>>)

\* lines 490-580: the else branch of the rule chain
ImportOrLocal(call_name, module_call_name, rest_call_name, c) ==
    LET rest == IF rest_call_name # <<>> THEN <<".">> \o rest_call_name ELSE <<>>
        byDep == DepLoop(c.deps, 1, module_call_name, call_name, rest)
        byWildcard == WildcardLoop(c.deps, 1, call_name)
        prefix == IF c.class_name # <<>> THEN c.fb \o <<".">> \o c.class_name \o <<".">>
                  ELSE c.fb \o <<".">>
        byNested == IF c.body THEN <<>> ELSE NestedLoop(c.table, 1, call_name, prefix)
    IN  IF byDep # <<>> THEN Appended(byDep)
        ELSE IF byWildcard # <<>> THEN Appended(byWildcard)
        ELSE IF \E i \in 1..Len(c.table) : c.table[i].name = call_name
             THEN Appended(<<c.fb \o <<".">> \o call_name>>)
        ELSE IF byNested # <<>> THEN Appended(byNested)
        ELSE QualifiedOrRaw(call_name, module_call_name, rest, c)

\* lines 462-580: what one raw call name adds to renamed_calls
ResolveOne(raw, c) ==
    IF raw = None THEN Raised("AttributeError")   \* None.split, line 463
    ELSE
    LET module0 == ModuleOf(raw)
        rest_call_name == RestOf(raw)
        hit  == \E i \in 1..Len(c.store) : c.store[i][1] = module0
        val  == c.store[CHOOSE i \in 1..Len(c.store) : c.store[i][1] = module0][2]
        module_call_name == IF hit THEN val ELSE module0
        call_name == IF hit THEN val \o <<".">> \o rest_call_name ELSE raw
    IN  IF hit /\ val = None THEN Raised("TypeError")   \* None + ".", line 472
        ELSE IF call_name \in DOMAIN c.classes
        THEN Appended(<<c.fb \o <<".">> \o call_name \o <<".", "__init__">>>>)
        ELSE IF Contains(module_call_name, <<"self">>)
        THEN Appended(<<c.fb \o <<".">> \o c.class_name \o <<".">> \o rest_call_name>>)
        ELSE IF Contains(module_call_name, <<"super", "()">>) /\ c.extend # <<>>
        THEN LET r == Dfs(c.extend, 1, rest_call_name, c.fb, c.classes, {})
             IN  IF r.raised # "" THEN r
                 ELSE IF r.out # <<>> THEN r
                 ELSE Appended(<<call_name>>)
        ELSE ImportOrLocal(call_name, module_call_name, rest_call_name, c)

RECURSIVE FillCalls(_, _, _)
\* the loop of line 461 over the calls of one definition; an exception ends it
FillCalls(calls, i, c) ==
    IF i > Len(calls) THEN Appended(<<>>)
    ELSE LET r == ResolveOne(calls[i], c)
         IN  IF r.raised # "" THEN r
             ELSE LET more == FillCalls(calls, i + 1, c)
                  IN  IF more.raised # "" THEN more ELSE Appended(r.out \o more.out)

\* The calls of one scope of the file after _fill_call_name, as inspect_classes
\* (lines 172-178), inspect_functions (116-120) and inspect_body (181-210)
\* compute them: [raised, out].
InspectScope(file, scope) ==
    LET deps  == InspectDependencies(file.imports, 1, file.existing)
        store == StoreVars(scope.stmts, Len(scope.stmts), scope.kind = "body")
        base  == [fb |-> file.fb, classes |-> file.classes, deps |-> deps,
                  store |-> store.out]
    IN  IF store.raised # "" THEN store
        ELSE IF scope.kind = "body"
        THEN FillCalls(BodyRawCalls(scope.stmts), 1,
                       base @@ [class_name |-> <<>>, extend |-> <<>>, body |-> TRUE,
                                table |-> <<[name |-> <<"body">>, functions |-> {}]>>])
        ELSE IF scope.kind = "method"
        THEN FillCalls(FunctionRawCalls(scope.stmts), 1,
                       base @@ [class_name |-> scope.class,
                                extend |-> file.classes[scope.class].extend, body |-> FALSE,
                                table |-> scope.table])
        ELSE FillCalls(FunctionRawCalls(scope.stmts), 1,
                       base @@ [class_name |-> <<>>, extend |-> <<>>, body |-> FALSE,
                                table |-> scope.table])

-----------------------------------------------------------------------------
(* CodeInspection.__init__: the fixed construction sequence *)

NoExit == -1

\* the steps of CodeInspection.__init__, in the order of its assignments;
\* file_json, the last one, runs _ast_if_main ("main") and then writes the
\* report ("json")
InspectionSteps ==
    <<"parse", "file", "controlflow", "dependencies", "classes", "functions",
      "body", "main", "json">>

StepIndex(step) == CHOOSE i \in 1..Len(InspectionSteps) : InspectionSteps[i] = step

\* Source files are abstracted by the step of the construction that raises on
\* them ("none": every step succeeds).
Faults == {"none", "parse", "body"}

\* the directories of the inspected tree (lists of path components below the
\* input path) and the file names found in them
SubDirs == {<<"r">>, <<"r", "s">>, <<"r", "t", "s">>}
FileNames ==
    {<<"m", ".", "py">>, <<"n", ".", "py">>, <<"m", ".", "x", ".", "py">>,
     <<"m", ".", "py", "c">>}

\* file_name = os.path.basename(self.path).split(".")
FileNameParts(name) == Split(name, ".")

\* file_info["fileNameBase"] = file_name[0]
FileNameBase(name) == FileNameParts(name)[1]

\* inspect_file raises IndexError on file_name[1] when the name holds no "."
FaultOf(e) ==
    IF e.fault = "parse" THEN "parse"
    ELSE IF Len(FileNameParts(e.name)) < 2 THEN "file"
    ELSE e.fault

\* the step `step` ran to its end on source e
StepDone(e, step) ==
    FaultOf(e) = "none" \/ StepIndex(step) < StepIndex(FaultOf(e))

SourcePath(e) == [dir |-> e.dir, name |-> e.name]

\* the content of an output that is not the report of one source file
Generated(what) == [dir |-> <<>>, name |-> what]

\* out_control_flow_path + "/" + fileNameBase + ".txt"
CfgPath(key, e) ==
    [key |-> key, sub |-> "control_flow", file |-> FileNameBase(e.name) \o <<".", "txt">>]

\* out_json_path + "/" + fileNameBase + ".json"
JsonPath(key, e) ==
    [key |-> key, sub |-> "json_files", file |-> FileNameBase(e.name) \o <<".", "json">>]

\* f with x mapped to v (open(x, 'w') ... write)
WriteFile(f, x, v) == [y \in DOMAIN f \cup {x} |-> IF y = x THEN v ELSE f[y]]

\* The output tree after CodeInspection(path, cf_dir, json_dir, fig): the
\* control-flow text is written by inspect_controlflow, the JSON by file_json,
\* the last step.
FilesAfterInspection(files, key, e) ==
    LET f1 == IF StepDone(e, "controlflow")
              THEN WriteFile(files, CfgPath(key, e), SourcePath(e)) ELSE files
    IN  IF StepDone(e, "json") THEN WriteFile(f1, JsonPath(key, e), SourcePath(e)) ELSE f1

\* CodeInspection(...) returned (no step raised)
InspectionOk(e) == FaultOf(e) = "none"

-----------------------------------------------------------------------------
(* main(): input validation, single-file mode, directory mode *)

\* sys.exit(): the exit status of SystemExit(None)
SysExitNoArg == 0
\* the interpreter's exit status after an uncaught exception
UncaughtExit == 1

\* the default --ignore_file_pattern
IgnoreFilePatterns == {<<".">>, <<"__pycache__">>}

\* files[:] = [f for f in files if not f.startswith(ignore_f)], then
\* `".py" in f and not f.endswith(".pyc")`
IsCandidate(name) ==
    /\ \A ig \in IgnoreFilePatterns : ~StartsWith(name, ig)
    /\ Contains(name, <<".", "py">>)
    /\ ~EndsWith(name, <<".", "py", "c">>)

\* out_dir = output_dir + "/" + os.path.basename(subdir), the key of dir_info
OutDirKey(e) == <<DirBaseName(e.dir)>>

\* the single-file mode writes below output_dir itself
RootKey == <<>>

RootFile(name) == [key |-> RootKey, sub |-> "", file |-> name]

\* DirInfoAfter without the isolation of a failed inspection: the file is
\* appended whether or not CodeInspection raised
DirInfoAfterMutant(d, e) ==
    LET k == OutDirKey(e)
    IN  IF k \notin DOMAIN d THEN WriteFile(d, k, <<SourcePath(e)>>)
        ELSE WriteFile(d, k, Append(d[k], SourcePath(e)))

\* dir_info after the walk's try block on e (lines 753-756); an exception of
\* the inspection leaves it as it was (line 757)
DirInfoAfter(d, e) ==
    LET k == OutDirKey(e)
    IN  IF ~InspectionOk(e) THEN d
        ELSE IF k \notin DOMAIN d THEN WriteFile(d, k, <<SourcePath(e)>>)
        ELSE WriteFile(d, k, Append(d[k], SourcePath(e)))

WalkArgs ==
    {[kind |-> "missing", call_list |-> FALSE, html |-> FALSE, requirements |-> FALSE,
      out_exists |-> FALSE, input |-> <<>>]}
    \cup
    {[kind |-> "file", call_list |-> c, html |-> h, requirements |-> FALSE,
      out_exists |-> FALSE, input |-> [dir |-> <<"r">>, name |-> n, fault |-> f]] :
        c \in BOOLEAN, h \in BOOLEAN, n \in FileNames \cup {<<"m">>}, f \in Faults}
    \cup
    {[kind |-> "dir", call_list |-> c, html |-> h, requirements |-> q, out_exists |-> x,
      input |-> <<>>] :
        c \in BOOLEAN, h \in BOOLEAN, q \in BOOLEAN, x \in BOOLEAN}

\* what os.walk can yield next; the content of a file the walk skips is never read
WalkEntries ==
    {e \in [dir : SubDirs, name : FileNames, fault : Faults] :
        IsCandidate(e.name) \/ e.fault = "none"}

EmptyMap == [x \in {} |-> <<>>]

IdleWalk ==
    /\ w_pc = "idle" /\ w_args = [kind |-> "idle"] /\ w_visited = <<>> /\ w_dir_info = EmptyMap
    /\ w_files = EmptyMap /\ w_log = <<>> /\ w_exit = NoExit

InitWalkVars ==
    /\ w_pc = "start" /\ w_args \in WalkArgs /\ w_visited = <<>>
    /\ w_dir_info = EmptyMap /\ w_files = EmptyMap /\ w_log = <<>> /\ w_exit = NoExit

\* lines 717-719: the input path is neither a file nor a directory
RejectInput ==
    /\ w_pc = "start" /\ w_args.kind = "missing"
    /\ w_log' = Append(w_log, [kind |-> "diagnostic", what |-> <<"does not exist">>])
    /\ w_exit' = SysExitNoArg
    /\ w_pc' = "exited"
    /\ UNCHANGED <<w_args, w_visited, w_dir_info, w_files>>
    /\ UNCHANGED otherThanWalk

\* lines 721-735: single-file mode
RunSingleFile ==
    /\ w_pc = "start" /\ w_args.kind = "file"
    /\ LET e  == w_args.input
           f1 == FilesAfterInspection(w_files, RootKey, e)
           f2 == IF w_args.call_list /\ w_args.html
                 THEN WriteFile(f1, [key |-> RootKey, sub |-> "json_files",
                                     file |-> <<"CallGraph", ".", "html">>], Generated(<<"call_list">>))
                 ELSE f1
           f3 == IF w_args.html
                 THEN WriteFile(f2, [key |-> RootKey, sub |-> "json_files",
                                     file |-> <<"FileInfo", ".", "html">>], SourcePath(e))
                 ELSE f2
       IN  IF InspectionOk(e)
           THEN /\ w_files' = f3 /\ w_pc' = "done" /\ w_exit' = 0 /\ w_log' = w_log
           ELSE /\ w_files' = f1 /\ w_pc' = "crashed" /\ w_exit' = UncaughtExit
                /\ w_log' = Append(w_log, [kind |-> "traceback", what |-> <<FaultOf(e)>>])
    /\ UNCHANGED <<w_args, w_visited, w_dir_info>>
    /\ UNCHANGED otherThanWalk

\* line 737: directory mode begins
BeginWalk ==
    /\ w_pc = "start" /\ w_args.kind = "dir"
    /\ w_pc' = "walk"
    /\ UNCHANGED <<w_args, w_visited, w_dir_info, w_files, w_log, w_exit>>
    /\ UNCHANGED otherThanWalk

\* lines 746-759: one iteration of `for f in files` on the next entry os.walk yields
WalkEntry(e) ==
    /\ w_pc = "walk" /\ Len(w_visited) < MaxEntries
    /\ \A i \in 1..Len(w_visited) : SourcePath(w_visited[i]) # SourcePath(e)
    /\ w_visited' = Append(w_visited, e)
    /\ IF IsCandidate(e.name)
       THEN /\ w_files' = FilesAfterInspection(w_files, OutDirKey(e), e)
            /\ w_dir_info' = DirInfoAfter(w_dir_info, e)
            /\ w_log' = IF InspectionOk(e) THEN w_log
                        ELSE Append(w_log, [kind |-> "file_error", what |-> e.name])
       ELSE UNCHANGED <<w_files, w_dir_info, w_log>>
    /\ UNCHANGED <<w_pc, w_args, w_exit>>
    /\ UNCHANGED otherThanWalk

\* the output directory exists when line 766 opens call_graph.html: it was
\* there before the run (out_exists), or create_output_dirs (line 751) has made
\* it, which runs for every candidate the walk reaches, before the
\* inspection; main itself never creates output_dir
OutputDirExists ==
    w_args.out_exists \/ \E i \in 1..Len(w_visited) : IsCandidate(w_visited[i].name)

\* the call after the walk that raises: generate_output_html of line 766
\* opens a file of an output directory that does not exist
\* (FileNotFoundError); find_requirements (line 769) and directory_tree
\* (line 772) are names that neither code_inspector.py nor the utils module
\* defines (NameError)
FailingCallAfterWalk(args, dirExists) ==
    IF args.call_list /\ args.html /\ ~dirExists THEN <<"generate_output_html">>
    ELSE IF args.requirements THEN <<"requirements">>
    ELSE <<"directory_tree">>

\* lines 761-772: after the walk; lines 773-781 are never reached
FinishWalk ==
    /\ w_pc = "walk"
    /\ w_files' = IF w_args.call_list /\ w_args.html /\ OutputDirExists
                  THEN WriteFile(w_files, RootFile(<<"call_graph", ".", "html">>),
                                 Generated(<<"call_list">>))
                  ELSE w_files
    /\ w_log' = Append(w_log, [kind |-> "traceback",
                               what |-> FailingCallAfterWalk(w_args, OutputDirExists)])
    /\ w_pc' = "crashed" /\ w_exit' = UncaughtExit
    /\ UNCHANGED <<w_args, w_visited, w_dir_info>>
    /\ UNCHANGED otherThanWalk

NextWalk ==
    \/ RejectInput
    \/ RunSingleFile
    \/ BeginWalk
    \/ \E e \in WalkEntries : WalkEntry(e)
    \/ FinishWalk

-----------------------------------------------------------------------------
(* Inspecting the calls of one scope: the inputs and the step *)

IdleCalls ==
    /\ r_pc = "idle" /\ r_file = [fb |-> <<>>] /\ r_scope = [kind |-> "idle"]
    /\ r_deps = <<>> /\ r_out = Appended(<<>>)

IdleMain ==
    /\ m_pc = "idle" /\ m_fb = <<>> /\ m_ifs = <<>>
    /\ m_info = [main_flag |-> 0, main_function |-> <<>>, type |-> ""]

IdleClassify ==
    /\ c_pc = "idle" /\ c_dir = [setup |-> "none", files |-> <<>>] /\ c_next = 1
    /\ c_dir_info = <<>>
    /\ c_main_files = <<>> /\ c_secondary = <<>> /\ c_out = <<>>

IdleUnit == u_pc = "idle" /\ u_in = <<>> /\ u_out = <<>>

\* the components other than the calls of one scope are not running
IdleButCalls == IdleWalk /\ IdlePrune /\ IdleMain /\ IdleClassify /\ IdleUnit

\* inspect_dependencies, then _f_definitions / inspect_body and
\* _fill_call_name on the scope
Inspect ==
    /\ r_pc = "source"
    /\ r_deps' = InspectDependencies(r_file.imports, 1, r_file.existing)
    /\ r_out' = InspectScope(r_file, r_scope)
    /\ r_pc' = "done"
    /\ UNCHANGED <<r_file, r_scope>>
    /\ UNCHANGED otherThanCalls

NextCalls == Inspect

\* sequences over S of length at most n
RECURSIVE SeqsUpTo(_, _)
SeqsUpTo(S, n) ==
    IF n = 0 THEN {<<>>}
    ELSE LET shorter == SeqsUpTo(S, n - 1)
         IN  shorter \cup {Append(q, x) : q \in shorter, x \in S}

\* ---- every shape of call target, in every kind of scope ----

RECURSIVE Exprs(_)
Exprs(d) ==
    IF d = 0 THEN {Name("f"), OtherExpr}
    ELSE LET E == Exprs(d - 1)
         IN  E \cup {Attribute(e, "a") : e \in E} \cup {Call(e) : e \in E}
               \cup {Subscript(e) : e \in E}

\* the statement lists: one call, as an expression statement or assigned to
\* x, or the name self assigned to x or to self.y, alone or followed by the
\* call x.go()
RenderStmts ==
    LET first == {ExprStmt(e) : e \in Exprs(MaxExprDepth)}
                 \cup {AssignStmt(Name("x"), e) : e \in Exprs(MaxExprDepth)}
                 \cup {ValueAssign(Name("x"), Name("self")),
                       ValueAssign(Attribute(Name("self"), "y"), Name("self"))}
    IN  {<<st>> : st \in first}
        \cup {<<st, ExprStmt(Attribute(Name("x"), "go"))>> : st \in first}

GoTable == <<[name |-> <<"go">>, functions |-> {}]>>

RenderFile ==
    [fb |-> <<"a">>,
     classes |-> (<<"K">> :> [extend |-> <<>>, methods |-> <<<<"go">>>>]),
     imports |-> <<>>, existing |-> {}]

InitRender ==
    /\ r_pc = "source" /\ r_file = RenderFile
    /\ r_scope \in [kind : {"body", "function", "method"}, class : {<<"K">>},
                    stmts : RenderStmts, table : {GoTable}]
    /\ r_deps = <<>> /\ r_out = Appended(<<>>)
    /\ IdleButCalls

SpecRender == InitRender /\ [][NextCalls]_vars

\* ---- super() calls in a method of Child, over class tables ----

LocalClasses == {<<"Parent">>, <<"Mid">>}
\* X is a base that is not a class of the file
BaseNames == LocalClasses \cup {<<"X">>}
MethodNames == {<<"run">>, <<"format">>}

SuperCall(m) == ExprStmt(Attribute(Call(Name("super")), m))

ClassTables ==
    {(<<"Child">> :> [extend |-> ce, methods |-> <<<<"go">>>>])
       @@ (<<"Parent">> :> [extend |-> pe, methods |-> pm])
       @@ (<<"Mid">> :> [extend |-> me, methods |-> mm]) :
        ce \in SeqsUpTo(BaseNames, MaxBases),
        pe \in {<<>>, <<<<"X">>>>, <<<<"Child">>>>},
        pm \in {<<>>, <<<<"run">>>>},
        me \in {<<>>, <<<<"Parent">>>>, <<<<"Mid">>>>},
        mm \in {<<>>, <<<<"run">>>>, <<<<"format">>>>}}

InitSuper ==
    /\ r_pc = "source"
    /\ r_file \in [fb : {<<"a">>}, classes : ClassTables, imports : {<<>>}, existing : {{}}]
    /\ r_scope \in [kind : {"method"}, class : {<<"Child">>},
                    stmts : {<<SuperCall("run")>>, <<SuperCall("format")>>},
                    table : {GoTable}]
    /\ r_deps = <<>> /\ r_out = Appended(<<>>)
    /\ IdleButCalls

SpecSuper == InitSuper /\ [][NextCalls]_vars

\* ---- calls through imports ----

PlainImport(n)    == [from |-> <<>>, name |-> n, asname |-> None]
AliasImport(n, a) == [from |-> <<>>, name |-> n, asname |-> a]
FromImport(m, n)  == [from |-> m, name |-> n, asname |-> None]

ImportStmts ==
    {PlainImport(<<"b">>), PlainImport(<<"b", ".", "sub">>), PlainImport(<<"c">>),
     AliasImport(<<"c">>, <<"b">>), AliasImport(<<"b">>, <<"x">>),
     FromImport(<<"p">>, <<"b">>)}

SiblingFiles == {<<"b", ".", "py">>, <<"c", ".", "py">>}

ImportScopes ==
    [kind : {"function", "body"}, class : {<<>>},
     stmts : {<<ExprStmt(Attribute(Name("b"), "start"))>>,
              <<ExprStmt(Attribute(Name("x"), "start"))>>,
              <<AssignStmt(Name("b"), Name("f")), ExprStmt(Attribute(Name("b"), "start"))>>},
     table : {GoTable}]

InitImport ==
    /\ r_pc = "source"
    /\ r_file \in [fb : {<<"a">>}, classes : {EmptyMap},
                   imports : SeqsUpTo(ImportStmts, MaxImports),
                   existing : SUBSET SiblingFiles]
    /\ r_scope \in ImportScopes
    /\ r_deps = <<>> /\ r_out = Appended(<<>>)
    /\ IdleButCalls

SpecImport == InitImport /\ [][NextCalls]_vars

\* ---- calls of a method of Child that need the ancestor search ----

\* the call C.m() on a class of the file
ClassCall(c, m) == ExprStmt(Attribute(Name(c), m))

AncestorCalls ==
    {<<SuperCall("run")>>, <<SuperCall("format")>>,
     <<ClassCall("Mid", "run")>>, <<ClassCall("Parent", "run")>>}

InitAncestor ==
    /\ r_pc = "source"
    /\ r_file \in [fb : {<<"a">>}, classes : ClassTables, imports : {<<>>}, existing : {{}}]
    /\ r_scope \in [kind : {"method"}, class : {<<"Child">>}, stmts : AncestorCalls,
                    table : {GoTable}]
    /\ r_deps = <<>> /\ r_out = Appended(<<>>)
    /\ IdleButCalls

SpecAncestor == InitAncestor /\ [][NextCalls]_vars

\* ---- two calls of one function through imports ----

AliasScopes ==
    [kind : {"function"}, class : {<<>>},
     stmts : {<<ExprStmt(Attribute(Name("b"), "start")), ExprStmt(Attribute(Name("x"), "start"))>>,
              <<ExprStmt(Attribute(Name("b"), "start")), ExprStmt(Attribute(Name("b"), "start"))>>,
              <<AssignStmt(Name("y"), Name("b")), ExprStmt(Attribute(Name("y"), "start")),
                ExprStmt(Attribute(Name("b"), "start"))>>},
     table : {GoTable}]

InitAlias ==
    /\ r_pc = "source"
    /\ r_file \in [fb : {<<"a">>}, classes : {EmptyMap},
                   imports : SeqsUpTo(ImportStmts, MaxImports),
                   existing : SUBSET SiblingFiles]
    /\ r_scope \in AliasScopes
    /\ r_deps = <<>> /\ r_out = Appended(<<>>)
    /\ IdleButCalls

SpecAlias == InitAlias /\ [][NextCalls]_vars

\* ---- one call against dependency tables or class tables ----

InitResolve == InitImport \/ InitAncestor

SpecResolve == InitResolve /\ [][NextCalls]_vars

-----------------------------------------------------------------------------
(* CodeInspection._ast_if_main: main-entry detection *)

\* A statement whose node has a value that is not a call (x = 1), and one
\* whose node has no value attribute at all (import, for, pass, a nested if,
\* ...)
ValueStmt   == ValueAssign(Name("x"), OtherExpr)
NoValueStmt == [kind |-> "novalue", target |-> OtherExpr, func |-> OtherExpr]

\* A top-level ast.If: test is "main" (__name__ == "__main__"), "str" (a
\* comparison whose first comparator is another string literal) or "nocmp"
\* (no comparison, or a first comparator without the attribute s).
IfNode(test, body) == [test |-> test, body |-> body]

\* `sub in s`, the searched word first
InStr(sub, s) == Contains(s, sub)

HasCallValue(st) == st.kind \in {"expr", "assign"}

\* [i.value.func for i in node.body if isinstance(i.value, ast.Call)], line 270
IfBodyFuncs(body) == StmtFuncs(SelectSeq(body, HasCallValue), 1)

\* the try block of lines 266-275 raises: node.test.comparators[0].s, i.value
\* of a node without value, or fileNameBase + "." + None
TestRaises(node) == node.test = "nocmp"
BodyRaises(node) ==
    \/ \E j \in 1..Len(node.body) : node.body[j].kind = "novalue"
    \/ LET names == RenderAll(IfBodyFuncs(node.body), 1)
       IN  names # <<>> /\ names[1] = None

RECURSIVE IfMainLoop(_, _, _, _)
\* the loop of lines 265-277 from node i on, if_main_flag being flag and
\* if_main_func still ""
IfMainLoop(ifs, i, fb, flag) ==
    IF i > Len(ifs) THEN [main_flag |-> flag, main_function |-> <<>>]
    ELSE LET node  == ifs[i]
             flag1 == IF node.test = "main" THEN 1 ELSE flag
             names == RenderAll(IfBodyFuncs(node.body), 1)
         IN  IF TestRaises(node) THEN IfMainLoop(ifs, i + 1, fb, flag)
             ELSE IF BodyRaises(node) \/ names = <<>> THEN IfMainLoop(ifs, i + 1, fb, flag1)
             ELSE [main_flag |-> flag1, main_function |-> fb \o <<".">> \o names[1]]

\* MainType as the words of the classification would have it: "test" anywhere
\* in the entry
MainTypeMutant(if_main_func, fb) ==
    IF InStr(<<"test">>, if_main_func) \/ InStr(<<"test">>, fb) THEN "test" ELSE "script"

\* lines 283-286
MainType(if_main_func, fb) ==
    IF InStr(<<"unittest">>, if_main_func) \/ InStr(<<"test">>, fb) THEN "test" ELSE "script"

\* _ast_if_main, lines 251-288; type is "" when main_info has no type
AstIfMain(fb, ifs) ==
    LET r == IfMainLoop(ifs, 1, fb, 0)
    IN  [main_flag |-> r.main_flag, main_function |-> r.main_function,
         type |-> IF r.main_flag = 1 THEN MainType(r.main_function, fb) ELSE ""]

FileBases == {<<"app">>, <<"test_app">>}

\* the statements of a conditional's body: calls of main, test_all,
\* unittest.main and of a call result, and an import
IfBodyStmts ==
    {ExprStmt(Name("main")), ExprStmt(Name("test_all")),
     ExprStmt(Attribute(Name("unittest"), "main")), ExprStmt(Call(Name("f"))),
     NoValueStmt}

IfTests == {"main", "str", "nocmp"}

\* the conditionals a file can hold
IfNodes == {IfNode(t, b) : t \in IfTests, b \in SeqsUpTo(IfBodyStmts, MaxStmts)}

RECURSIVE StmtCount(_)
\* the statements in the bodies of ifs, in all
StmtCount(ifs) == IF ifs = <<>> THEN 0 ELSE Len(Head(ifs).body) + StmtCount(Tail(ifs))

InitMainVars ==
    /\ m_pc = "source" /\ m_fb \in FileBases /\ m_ifs = <<>>
    /\ m_info = [main_flag |-> 0, main_function |-> <<>>, type |-> ""]

\* line 260: self.tree.body holds one more top-level conditional
ReadIf(node) ==
    /\ m_pc = "source"
    /\ Len(m_ifs) < MaxIfs /\ StmtCount(m_ifs) + Len(node.body) <= MaxStmts
    /\ m_ifs' = Append(m_ifs, node)
    /\ UNCHANGED <<m_pc, m_fb, m_info>>
    /\ UNCHANGED otherThanMain

\* _ast_if_main on the file read
DetectMain ==
    /\ m_pc = "source"
    /\ m_info' = AstIfMain(m_fb, m_ifs)
    /\ m_pc' = "done"
    /\ UNCHANGED <<m_fb, m_ifs>>
    /\ UNCHANGED otherThanMain

NextMain == (\E node \in IfNodes : ReadIf(node)) \/ DetectMain

InitMain == InitMainVars /\ IdleWalk /\ IdlePrune /\ IdleCalls /\ IdleClassify /\ IdleUnit

SpecMain == InitMain /\ [][NextMain]_vars

-----------------------------------------------------------------------------
(* The reports of a directory: call_list_dir, the relation resolver and      *)
(* extract_software_invocation (utils.py)                                    *)

\* A source file: its name, import statements, top-level functions (name and
\* statements), module-level statements and top-level conditionals.  The
\* sources of the model define no class and no nested function.
Func(name, stmts) == [name |-> name, stmts |-> stmts]
Source(name, imports, funcs, body, ifs) ==
    [name |-> name, imports |-> imports, funcs |-> funcs, body |-> body, ifs |-> ifs]

\* the directory walked
DirPath == <<"/", "r", "/">>

\* path = os.path.join(subdir, f)
FilePath(name) == DirPath \o name

\* index of the last chunk c in s, 0 when absent
LastIndex(s, c) ==
    IF \E i \in 1..Len(s) : s[i] = c
    THEN CHOOSE i \in 1..Len(s) : s[i] = c /\ \A j \in (i + 1)..Len(s) : s[j] # c
    ELSE 0

\* os.path.basename(path)
PathBaseName(path) == SubSeq(path, LastIndex(path, "/") + 1, Len(path))

\* os.path.splitext(name)[0], on the characters of a name without "/": the
\* text before the last "." unless only dots stand before it
SplitExtRoot(name) ==
    LET t == Explode(name)
        i == LastIndex(t, ".")
    IN  IF \E j \in 1..(i - 1) : t[j] # "." THEN SubSeq(t, 1, i - 1) ELSE t

\* funcs_info of _f_definitions, lines 314-385, a dict keyed by f.name: one
\* entry per name, the last definition of a name at the place of the first
FuncsInfo(funcs) ==
    LET keys == Dedupe([i \in 1..Len(funcs) |-> funcs[i].name], 1)
    IN  [k \in 1..Len(keys) |->
            funcs[CHOOSE i \in 1..Len(funcs) :
                     /\ funcs[i].name = keys[k]
                     /\ \A j \in (i + 1)..Len(funcs) : funcs[j].name # keys[k]]]

\* file_json, lines 300-307: the report made of the parts extracted before;
\* fcalls and body are the outcomes of resolving the calls of the entries of
\* funcs_info and of the module body
FileDict(src, fcalls, body, dependencies, main_info) ==
    [raised       |-> (\E i \in 1..Len(fcalls) : fcalls[i].raised # "") \/ body.raised # "",
     path         |-> FilePath(src.name),
     dependencies |-> dependencies,
     functions    |-> [i \in 1..Len(FuncsInfo(src.funcs)) |->
                         [name |-> FuncsInfo(src.funcs)[i].name, calls |-> fcalls[i].out]],
     body_calls   |-> body.out,
     main_info    |-> main_info]

\* the file entry and the function table of src
FileOf(src, existing) ==
    [fb |-> FileNameBase(src.name), classes |-> EmptyMap, imports |-> src.imports,
     existing |-> existing]
FuncTable(src) ==
    [i \in 1..Len(FuncsInfo(src.funcs)) |->
        [name |-> FuncsInfo(src.funcs)[i].name, functions |-> {}]]

\* _f_definitions raises on a definition of the file, kept in funcs_info or
\* not: the loop of line 315 goes through every definition
DefinitionRaises(src) ==
    \E i \in 1..Len(src.funcs) :
        StoreVars(src.funcs[i].stmts, Len(src.funcs[i].stmts), FALSE).raised # ""

\* fileJson[0] of CodeInspection(path, ...): raised tells that a step of the
\* construction raised, in which case there is no report
FileReport(src, existing) ==
    LET report ==
            FileDict(src,
                     [i \in 1..Len(FuncsInfo(src.funcs)) |->
                         InspectScope(FileOf(src, existing),
                                      [kind |-> "function", class |-> <<>>,
                                       stmts |-> FuncsInfo(src.funcs)[i].stmts,
                                       table |-> FuncTable(src)])],
                     InspectScope(FileOf(src, existing),
                                  [kind |-> "body", class |-> <<>>, stmts |-> src.body,
                                   table |-> FuncTable(src)]),
                     InspectDependencies(src.imports, 1, existing),
                     AstIfMain(FileNameBase(src.name), src.ifs))
    IN  [report EXCEPT !.raised = @ \/ DefinitionRaises(src)]

HasCalls(f) == f.calls # <<>>

\* extract_call_functions(funcsInfo), lines 298-310: the functions that call
\* something, each with its "local" calls
ExtractCallFunctions(functions) ==
    LET kept == SelectSeq(functions, HasCalls)
    IN  [i \in 1..Len(kept) |-> [name |-> kept[i].name, local |-> kept[i].calls]]

\* call_list_dir(dir_info), lines 334-343: file path -> call graph, in the
\* order of dir_info; neither body calls nor the calls of a conditional enter
CallListDir(dir_info) ==
    [i \in 1..Len(dir_info) |->
        [path |-> dir_info[i].path, graph |-> ExtractCallFunctions(dir_info[i].functions)]]

NotFound == [found |-> FALSE, graph |-> <<>>]

\* find_file_calls(file_name, call_list), lines 346-350
FindFileCalls(file_name, call_list) ==
    LET hits == {i \in 1..Len(call_list) : InStr(call_list[i].path, file_name)}
    IN  IF hits = {} THEN NotFound
        ELSE [found |-> TRUE,
              graph |-> call_list[CHOOSE i \in hits : \A j \in hits : i <= j].graph]

\* find_module_calls(module, call_list), lines 353-357
FindModuleCalls(module, call_list) ==
    LET hits == {i \in 1..Len(call_list) : InStr(module, call_list[i].path)}
    IN  IF hits = {} THEN NotFound
        ELSE [found |-> TRUE,
              graph |-> call_list[CHOOSE i \in hits : \A j \in hits : i <= j].graph]

\* level_depth of file_in_call
LevelDepth == 2

RECURSIVE FileInCall(_, _, _, _, _)
\* file_in_call, lines 362-394: TRUE when file is appended to m_imports
\* (m_imports is empty until then: extract_relations returns on the first hit).
\* Below the depth limit it goes through extract_data and
\* extract_local_function over the "local" calls of every function of the
\* module the call names.
FileInCall(base, call, call_list, orig_base, level) ==
    IF InStr(base, call) /\ ~InStr(orig_base, call) THEN TRUE
    ELSE IF InStr(orig_base, call) THEN FALSE
    ELSE IF level < LevelDepth
    THEN LET m_calls_extern == FindModuleCalls(Split(call, ".")[1], call_list)
         IN  /\ m_calls_extern.found
             /\ \E j \in 1..Len(m_calls_extern.graph) :
                    \E k \in 1..Len(m_calls_extern.graph[j].local) :
                        FileInCall(base, m_calls_extern.graph[j].local[k], call_list,
                                   orig_base, level + 1)
    ELSE FALSE

\* extract_data on the entry of one function, lines 397-425: its "local" calls
\* through extract_local_function
ExtractData(base, entry, call_list, orig_base, level) ==
    \E k \in 1..Len(entry.local) : FileInCall(base, entry.local[k], call_list, orig_base, level)

\* extract_relations, lines 430-447: the list is returned as soon as one other
\* main file is found
ExtractRelations(file_name, m_calls, main_files, call_list) ==
    LET orig_base == SplitExtRoot(PathBaseName(file_name)) \o <<".">>
        Hit(file) ==
            /\ ~InStr(file, file_name)
            /\ \E j \in 1..Len(m_calls) :
                   ExtractData(SplitExtRoot(PathBaseName(file)) \o <<".">>, m_calls[j],
                               call_list, orig_base, 0)
        hits == {i \in 1..Len(main_files) : Hit(main_files[i])}
    IN  IF hits = {} THEN <<>>
        ELSE <<main_files[CHOOSE i \in hits : \A j \in hits : i <= j]>>

\* line 441 iterates m_calls for the first main file that is not part of
\* file_name: TypeError when find_file_calls found no key and returned None
RelationsRaise(file_name, m_calls, main_files) ==
    ~m_calls.found /\ \E i \in 1..Len(main_files) : ~InStr(main_files[i], file_name)

\* A record of software_invocation_info: key is "run" or "import", skey the
\* name of the structure field as the code spells it.
SoftInfo(type, key, value, skey, structure) ==
    [type |-> type, key |-> key, value |-> value, skey |-> skey, structure |-> structure]

RunOf(path) == <<"python ">> \o path

ServerDependencies ==
    {<<"flask">>, <<"flask_restful">>, <<"falcon">>, <<"falcon_app">>, <<"aiohttp">>,
     <<"bottle">>, <<"django">>, <<"fastapi">>, <<"locust">>, <<"pyramid">>, <<"hug">>,
     <<"eve">>, <<"connexion">>}

\* str.lower on the chunks of the model
LowerChunk(c) == CASE c = "Flask" -> "flask" [] c = "Django" -> "django" [] OTHER -> c
Lower(s) == [i \in 1..Len(s) |-> LowerChunk(s[i])]

\* service_in_set without the test `soft_info not in software_invocation_info`
ServiceInSetMutant(data, elem, info, has_structure) ==
    LET soft_info == SoftInfo("service", "run", RunOf(elem.path), "has_structure", has_structure)
    IN  IF data # <<>> /\ Lower(data) \in ServerDependencies
        THEN [flag |-> TRUE, info |-> Append(info, soft_info)]
        ELSE [flag |-> FALSE, info |-> info]

\* service_in_set(data, ...), lines 470-483: data is a name, or the empty list
\* a plain import has as from_module
ServiceInSet(data, elem, info, has_structure) ==
    LET soft_info == SoftInfo("service", "run", RunOf(elem.path), "has_structure", has_structure)
    IN  IF data # <<>> /\ Lower(data) \in ServerDependencies
        THEN [flag |-> TRUE, info |-> IF InSeq(soft_info, info) THEN info ELSE Append(info, soft_info)]
        ELSE [flag |-> FALSE, info |-> info]

RECURSIVE ServiceCheckFrom(_, _, _, _)
\* service_check, lines 450-467, from dependency i on
ServiceCheckFrom(elem, i, info, has_structure) ==
    IF i > Len(elem.dependencies) THEN [flag |-> FALSE, info |-> info]
    ELSE LET byImport == ServiceInSet(elem.dependencies[i].import, elem, info, has_structure)
             byModule == ServiceInSet(elem.dependencies[i].from_module, elem, info, has_structure)
         IN  IF byImport.flag THEN byImport
             ELSE IF byModule.flag THEN byModule
             ELSE ServiceCheckFrom(elem, i + 1, info, has_structure)

ServiceCheck(elem, info, has_structure) == ServiceCheckFrom(elem, 1, info, has_structure)

\* inspect_setup(input_path, elem) of the setup-metadata inspector, by the
\* kind of project the setup file describes
InspectSetup(kind) == SoftInfo(kind, "installation", <<"pip install">>, "", "")

\* lines 123-149 for one report: chk is the outcome of service_check on it
ScanOne(acc, elem, chk) ==
    IF elem.main_info.main_flag = 1
    THEN [info |-> chk.info,
          main_files |-> IF ~chk.flag /\ elem.main_info.type # "test"
                         THEN Append(acc.main_files, elem.path) ELSE acc.main_files,
          test_files |-> IF ~chk.flag /\ elem.main_info.type = "test"
                         THEN Append(acc.test_files, elem.path) ELSE acc.test_files,
          body_only_files |-> acc.body_only_files,
          flag_service_main |-> acc.flag_service_main \/ chk.flag]
    ELSE [acc EXCEPT !.body_only_files = IF elem.body_calls # <<>> THEN Append(@, elem) ELSE @]

RECURSIVE ScanReports(_, _, _)
\* the loop of lines 122-149 over the reports from i on
ScanReports(dir_info, i, acc) ==
    IF i > Len(dir_info) THEN acc
    ELSE ScanReports(dir_info, i + 1,
                     ScanOne(acc, dir_info[i], ServiceCheck(dir_info[i], acc.info, "main")))

\* m_secondary after the loop of lines 154-161, [raised, out]
Secondary(main_files, call_list) ==
    IF \E m \in 1..Len(main_files) :
          RelationsRaise(main_files[m], FindFileCalls(main_files[m], call_list), main_files)
    THEN Raised("TypeError")
    ELSE Appended([i \in 1..Len(main_files) |->
                     IF \E m \in 1..Len(main_files) :
                           InSeq(main_files[i],
                                 ExtractRelations(main_files[m],
                                                  FindFileCalls(main_files[m], call_list).graph,
                                                  main_files, call_list))
                     THEN 1 ELSE 0])

RECURSIVE MainScripts(_, _, _)
\* lines 163-169: a script record for every main file that is not secondary
MainScripts(main_files, m_secondary, i) ==
    IF i > Len(main_files) THEN <<>>
    ELSE (IF m_secondary[i] = 0
          THEN <<SoftInfo("script", "run", RunOf(main_files[i]), "has_structure", "main")>>
          ELSE <<>>)
         \o MainScripts(main_files, m_secondary, i + 1)

\* lines 172-175
TestRecords(test_files) ==
    [i \in 1..Len(test_files) |->
        SoftInfo("test", "run", RunOf(test_files[i]), "has_structure", "main")]

\* lines 181-191 for one file: chk is the outcome of service_check on it;
\* found tells that a library, a service with main or a script with main was
\* found before the loop
BodyOne(acc, elem, chk, found) ==
    [info |-> IF ~found /\ ~(acc.flag_service_body \/ chk.flag)
              THEN Append(chk.info, SoftInfo("script", "run", RunOf(elem.path),
                                             "has_structure", "body"))
              ELSE chk.info,
     flag_service_body |-> acc.flag_service_body \/ chk.flag]

RECURSIVE BodyOnly(_, _, _, _)
\* the loop of lines 180-191 from file i on
BodyOnly(body_only_files, i, acc, found) ==
    IF i > Len(body_only_files) THEN acc
    ELSE BodyOnly(body_only_files, i + 1,
                  BodyOne(acc, body_only_files[i],
                          ServiceCheck(body_only_files[i], acc.info, "body"), found),
                  found)

\* lines 195-204: python_files of the directory tree; the structure field is
\* spelled has_strcuture
WithoutMain(names) ==
    [i \in 1..Len(names) |->
        SoftInfo("script without main", "import", FilePath(names[i]), "has_strcuture",
                 "without_body")]

\* lines 101-108: the record of the setup file, when the tree has one
SetupRecords(dir) == IF dir.setup # "none" THEN <<InspectSetup(dir.setup)>> ELSE <<>>

\* lines 193-206: step5 is the outcome of the loop over the files with body
\* only.  flag_script_body is never set: line 191 assigns flage_script_body.
WithStep6(dir, scan, m_secondary, found, step5) ==
    [raised      |-> "",
     main_files  |-> scan.main_files,
     m_secondary |-> m_secondary,
     out         |-> IF ~found /\ ~step5.flag_service_body
                     THEN step5.info \o WithoutMain([i \in 1..Len(dir.files) |-> dir.files[i].name])
                     ELSE step5.info]

\* lines 177-191: found is flag_service_main, flag_package_library or
\* flag_script_main
WithBodies(dir, scan, m_secondary, scripts, found) ==
    WithStep6(dir, scan, m_secondary, found,
              BodyOnly(scan.body_only_files, 1,
                       [info |-> scan.info \o scripts \o TestRecords(scan.test_files),
                        flag_service_body |-> FALSE], found))

\* lines 163-175: scripts are the records of the main files that are not
\* secondary
WithScripts(dir, scan, m_secondary, scripts) ==
    WithBodies(dir, scan, m_secondary, scripts,
               scan.flag_service_main \/ dir.setup # "none" \/ scripts # <<>>)

\* lines 151-169 on the outcome of the scan
WithMains(dir, scan, m_secondary) ==
    WithScripts(dir, scan, m_secondary, MainScripts(scan.main_files, m_secondary, 1))

\* lines 151-161 on the outcome of the scan: an exception of the loop leaves
\* the function, which returns nothing
AfterScan(dir, scan, call_list) ==
    LET m_secondary == Secondary(scan.main_files, call_list)
    IN  IF m_secondary.raised # ""
        THEN [raised |-> m_secondary.raised, main_files |-> scan.main_files,
              m_secondary |-> <<>>, out |-> <<>>]
        ELSE WithMains(dir, scan, m_secondary.out)

\* extract_software_invocation(dir_info, dir_tree_info, input_path, call_list),
\* lines 85-206; dir is the directory tree: its setup file and its file names
ExtractSoftwareInvocation(dir_info, dir, call_list) ==
    AfterScan(dir,
              ScanReports(dir_info, 1,
                          [info |-> SetupRecords(dir), main_files |-> <<>>, test_files |-> <<>>,
                           body_only_files |-> <<>>, flag_service_main |-> FALSE]),
              call_list)

\* ---- the directories of the model ----

MainIf(func) == IfNode("main", <<ExprStmt(func)>>)
ImportOf(n)  == <<PlainImport(<<n>>)>>
NameA == <<"main_a", ".", "py">>
NameB == <<"main_b", ".", "py">>
NameC == <<"c", ".", "py">>
CallMainOfA == ExprStmt(Attribute(Name("main_a"), "main"))

\* main_a.py: a main function and a main block calling it; the function
\* calls print, or run of main_b, or is defined twice, calling run of main_b
\* in its first definition and print in its second
SourcesA ==
    {Source(NameA, <<>>, <<Func(<<"main">>, <<ExprStmt(Name("print"))>>)>>, <<>>,
            <<MainIf(Name("main"))>>),
     Source(NameA, ImportOf("main_b"),
            <<Func(<<"main">>, <<ExprStmt(Attribute(Name("main_b"), "run"))>>),
              Func(<<"main">>, <<ExprStmt(Name("print"))>>)>>, <<>>,
            <<MainIf(Name("main"))>>),
     Source(NameA, ImportOf("main_b"),
            <<Func(<<"main">>, <<ExprStmt(Attribute(Name("main_b"), "run"))>>)>>, <<>>,
            <<MainIf(Name("main"))>>)}

\* main_b.py imports main_a and calls main_a.main(): in its main block only,
\* in a function its main block calls, in both, or at module level without a
\* main block; or it is a flask service, or a unittest file
SourcesB ==
    {Source(NameB, ImportOf("main_a"), <<>>, <<>>, <<MainIf(Attribute(Name("main_a"), "main"))>>),
     Source(NameB, ImportOf("main_a"), <<Func(<<"run">>, <<CallMainOfA>>)>>, <<>>,
            <<MainIf(Name("run"))>>),
     Source(NameB, ImportOf("main_a"), <<Func(<<"run">>, <<CallMainOfA>>)>>, <<>>,
            <<MainIf(Attribute(Name("main_a"), "main"))>>),
     Source(NameB, ImportOf("main_a"), <<>>, <<CallMainOfA>>, <<>>),
     Source(NameB, ImportOf("Flask"), <<>>, <<>>, <<MainIf(Name("serve"))>>),
     Source(NameB, ImportOf("unittest"), <<>>, <<>>,
            <<MainIf(Attribute(Name("unittest"), "main"))>>)}

\* c.py: definitions only, a module-level call, a flask service without main
\* block, or a module-level call whose inspection raises
SourcesC ==
    {Source(NameC, <<>>, <<Func(<<"lib">>, <<>>)>>, <<>>, <<>>),
     Source(NameC, <<>>, <<>>, <<ExprStmt(Name("print"))>>, <<>>),
     Source(NameC, ImportOf("flask"), <<>>, <<ExprStmt(Name("serve"))>>, <<>>),
     Source(NameC, <<>>, <<>>, <<ExprStmt(Call(Name("f")))>>, <<>>)}

ClassifySources == SourcesA \cup SourcesB \cup SourcesC

SetupKinds == {"none", "package"}

\* the file lists of a directory: at most MaxFiles files of different names
FileLists ==
    {fs \in SeqsUpTo(ClassifySources, MaxFiles) :
        \A i, j \in 1..Len(fs) : i # j => fs[i].name # fs[j].name}

InitClassifyVars ==
    /\ c_pc = "reports" /\ c_dir \in [setup : SetupKinds, files : FileLists] /\ c_next = 1
    /\ c_dir_info = <<>> /\ c_main_files = <<>> /\ c_secondary = <<>> /\ c_out = <<>>

\* lines 753-756: the report joins dir_info; none when the inspection raised
WithReport(dir_info, report) == IF report.raised THEN dir_info ELSE Append(dir_info, report)

\* the next report of the dir_info given to the classifier: the report
\* CodeInspection makes of the next file, joined as lines 753-756 of
\* code_inspector.py join it, unless the inspection raised
InspectNextFile ==
    /\ c_pc = "reports" /\ c_next <= Len(c_dir.files)
    /\ c_dir_info' = WithReport(c_dir_info,
                                FileReport(c_dir.files[c_next],
                                           {c_dir.files[i].name : i \in 1..Len(c_dir.files)}))
    /\ c_next' = c_next + 1
    /\ UNCHANGED <<c_pc, c_dir, c_main_files, c_secondary, c_out>>
    /\ UNCHANGED otherThanClassify

\* lines 151-206 of utils.py: the outcome r of the classifier
Classified(r) ==
    /\ c_pc' = IF r.raised # "" THEN "raised" ELSE "done"
    /\ c_main_files' = r.main_files
    /\ c_secondary' = r.m_secondary
    /\ c_out' = r.out

\* extract_software_invocation(dir_info, dir_tree_info, input_path,
\* call_list_dir(dir_info)) applied to the reports, with the four arguments of
\* its signature. No run of main makes this call: line 773 of
\* code_inspector.py names software_invocation with two arguments, and lines
\* 769 and 772 raise before it (FinishWalk).
Classify ==
    /\ c_pc = "reports" /\ c_next > Len(c_dir.files)
    /\ Classified(ExtractSoftwareInvocation(c_dir_info, c_dir, CallListDir(c_dir_info)))
    /\ UNCHANGED <<c_dir, c_next, c_dir_info>>
    /\ UNCHANGED otherThanClassify

NextClassify == InspectNextFile \/ Classify

InitClassify == InitClassifyVars /\ IdleWalk /\ IdlePrune /\ IdleCalls /\ IdleMain /\ IdleUnit

SpecClassify == InitClassify /\ [][NextClassify]_vars

\* ---- three script candidates calling each other's main ----

NameMainC == <<"main_c", ".", "py">>

CandidateNames == <<NameA, NameB, NameMainC>>

\* import m, for every module of the list
ImportsOf(modules) == [i \in 1..Len(modules) |-> PlainImport(<<modules[i]>>)]

\* m.main(), for every module of the list
MainCallsOf(modules) == [i \in 1..Len(modules) |-> ExprStmt(Attribute(Name(modules[i]), "main"))]

\* a file with a main block calling its function main, which calls the main
\* of the candidates it imports, or print when it imports none
Candidate(name, callees) ==
    Source(name, ImportsOf(callees),
           <<Func(<<"main">>, IF callees = <<>> THEN <<ExprStmt(Name("print"))>>
                              ELSE MainCallsOf(callees))>>,
           <<>>, <<MainIf(Name("main"))>>)

\* the candidates a candidate can call, in the order of its calls
CalleesOf(name) ==
    LET others == SelectSeq(<<"main_a", "main_b", "main_c">>, LAMBDA m : <<m>> # FileNameBase(name))
    IN  {<<>>, <<others[1]>>, <<others[2]>>, others}

\* the orders in which the reports of three files can stand in dir_info
\* (os.walk yields the files of a directory in the order of os.scandir)
FileOrders == {o \in [1..3 -> 1..3] : \A i, j \in 1..3 : o[i] = o[j] => i = j}

CandidateLists ==
    {[i \in 1..3 |-> <<Candidate(NameA, a), Candidate(NameB, b), Candidate(NameMainC, c)>>[o[i]]] :
        a \in CalleesOf(NameA), b \in CalleesOf(NameB), c \in CalleesOf(NameMainC),
        o \in FileOrders}

InitRelationsVars ==
    /\ c_pc = "reports" /\ c_dir \in [setup : {"none"}, files : CandidateLists] /\ c_next = 1
    /\ c_dir_info = <<>> /\ c_main_files = <<>> /\ c_secondary = <<>> /\ c_out = <<>>

InitRelations == InitRelationsVars /\ IdleWalk /\ IdlePrune /\ IdleCalls /\ IdleMain /\ IdleUnit

SpecRelations == InitRelations /\ [][NextClassify]_vars

-----------------------------------------------------------------------------
(* service_check on one file after another *)

\* the import statements of the files checked: none, none of a service, a
\* service by its import name, by the first part of a dotted import name, by
\* an imported name of another case, by its source module after another import
ServiceImports ==
    {<<>>,
     <<PlainImport(<<"os">>)>>,
     <<PlainImport(<<"flask">>)>>,
     <<PlainImport(<<"os">>), PlainImport(<<"flask", ".", "views">>)>>,
     <<FromImport(<<"json">>, <<"Django">>)>>,
     <<FromImport(<<"flask">>, <<"Flask">>)>>,
     <<PlainImport(<<"os">>), FromImport(<<"flask">>, <<"views">>)>>}

ServiceFileNames == {<<"a", ".", "py">>, <<"b", ".", "py">>}

\* the part of a file report service_check reads
ServiceElem(name, imports) ==
    [path |-> FilePath(name), dependencies |-> InspectDependencies(imports, 1, {})]

NoElem == [path |-> <<>>, dependencies |-> <<>>]

InitServiceVars ==
    /\ u_pc = "input"
    /\ u_in = [n |-> 0, elem |-> NoElem, has_structure |-> "", again |-> FALSE]
    /\ u_out \in {[flag |-> FALSE, info |-> info] : info \in {<<>>, <<InspectSetup("package")>>}}

\* flag_service, software_invocation_info = service_check(elem,
\* software_invocation_info, server_dependencies, has_structure); again tells
\* that the file and structure are those of the check before
CheckService(name, imports, has_structure) ==
    /\ u_pc = "input" /\ u_in.n < MaxChecks
    /\ u_in' = [n |-> u_in.n + 1, elem |-> ServiceElem(name, imports),
                has_structure |-> has_structure,
                again |-> u_in.elem = ServiceElem(name, imports)
                          /\ u_in.has_structure = has_structure]
    /\ u_out' = ServiceCheck(ServiceElem(name, imports), u_out.info, has_structure)
    /\ UNCHANGED u_pc
    /\ UNCHANGED otherThanUnit

NextService ==
    \E name \in ServiceFileNames, imports \in ServiceImports,
       has_structure \in {"main", "body"} : CheckService(name, imports, has_structure)

InitService == InitServiceVars /\ IdleWalk /\ IdlePrune /\ IdleCalls /\ IdleMain /\ IdleClassify

SpecService == InitService /\ [][NextService]_vars

-----------------------------------------------------------------------------
(* extract_software_type: the dominant type of a record list *)

\* `word in entry["type"]`
TypeHas(word, entry) == InStr(<<word>>, <<entry.type>>)

RECURSIVE TypeLoopMutant(_, _, _, _)
\* the loop without the early return: a library or package record wins only
\* when no service or script record is in the list
TypeLoopMutant(list, i, services, scripts) ==
    IF i > Len(list)
    THEN IF services > 0 THEN "service"
         ELSE IF scripts > 0 THEN "script"
         ELSE IF \E k \in 1..Len(list) : TypeHas("library", list[k]) \/ TypeHas("package", list[k])
         THEN "package"
         ELSE "not found"
    ELSE TypeLoopMutant(list, i + 1,
                        IF TypeHas("service", list[i]) THEN services + 1 ELSE services,
                        IF TypeHas("script", list[i]) THEN scripts + 1 ELSE scripts)

RECURSIVE TypeLoop(_, _, _, _)
\* lines 497-508 from entry i on; services and scripts are the lengths of the
\* two lists collected so far
TypeLoop(list, i, services, scripts) ==
    IF i > Len(list)
    THEN IF services > 0 THEN "service"
         ELSE IF scripts > 0 THEN "script"
         ELSE "not found"
    ELSE IF TypeHas("library", list[i]) \/ TypeHas("package", list[i])
    THEN list[i].type
    ELSE TypeLoop(list, i + 1,
                  IF TypeHas("service", list[i]) THEN services + 1 ELSE services,
                  IF TypeHas("script", list[i]) THEN scripts + 1 ELSE scripts)

\* extract_software_type(soft_invocation_info_list), lines 486-508
ExtractSoftwareType(list) == TypeLoop(list, 1, 0, 0)

\* the types of the records the classifier and the setup inspector produce
RecordTypes == {"library", "package", "service", "script", "test", "script without main"}

InitTypeVars == u_pc = "input" /\ u_in = <<>> /\ u_out = <<>>

\* one more record in soft_invocation_info_list
AddRecord(type) ==
    /\ u_pc = "input" /\ Len(u_in) < MaxRecords
    /\ u_in' = Append(u_in, SoftInfo(type, "run", RunOf(FilePath(NameC)), "has_structure", "main"))
    /\ UNCHANGED <<u_pc, u_out>>
    /\ UNCHANGED otherThanUnit

\* extract_software_type on the list
ReduceType ==
    /\ u_pc = "input"
    /\ u_out' = ExtractSoftwareType(u_in)
    /\ u_pc' = "done"
    /\ UNCHANGED u_in
    /\ UNCHANGED otherThanUnit

NextType == (\E type \in RecordTypes : AddRecord(type)) \/ ReduceType

InitType == InitTypeVars /\ IdleWalk /\ IdlePrune /\ IdleCalls /\ IdleMain /\ IdleClassify

SpecType == InitType /\ [][NextType]_vars

-----------------------------------------------------------------------------
(* CodeInspection.inspect_file: path, fileNameBase and extension *)

\* the working directory of the run
Cwd == <<"/", "w">>

RECURSIVE NormParts(_, _)
\* os.path.normpath on the components parts of an absolute path, acc being
\* the components kept so far: empty and "." components are dropped, ".."
\* drops the component before it (none at the root)
NormParts(parts, acc) ==
    IF parts = <<>> THEN acc
    ELSE IF Explode(Head(parts)) \in {<<>>, <<".">>} THEN NormParts(Tail(parts), acc)
    ELSE IF Explode(Head(parts)) = <<".", ".">>
    THEN NormParts(Tail(parts), IF acc = <<>> THEN acc ELSE SubSeq(acc, 1, Len(acc) - 1))
    ELSE NormParts(Tail(parts), Append(acc, Head(parts)))

\* the slashes normpath puts first: exactly two leading slashes are kept, one
\* or three and more make one
InitialSlashes(path) ==
    IF StartsWith(path, <<"/", "/">>) /\ ~StartsWith(path, <<"/", "/", "/">>)
    THEN <<"/", "/">> ELSE <<"/">>

\* os.path.abspath(path): a relative path is joined to the working directory
AbsPath(path) ==
    LET full == IF StartsWith(path, <<"/">>) THEN path ELSE Cwd \o <<"/">> \o path
    IN  InitialSlashes(full) \o Join(NormParts(Split(full, "/"), <<>>), "/")

\* inspect_file, lines 66-70: file_name[1] raises IndexError when the name
\* holds no "."
InspectFile(path) ==
    IF Len(Split(PathBaseName(path), ".")) < 2
    THEN [raised |-> "IndexError", path |-> <<>>, fileNameBase |-> <<>>, extension |-> <<>>]
    ELSE [raised |-> "", path |-> AbsPath(path),
          fileNameBase |-> Split(PathBaseName(path), ".")[1],
          extension |-> Split(PathBaseName(path), ".")[2]]

\* the directory part of the path given to CodeInspection
PathPrefixes ==
    {<<>>, <<"r", "/">>, <<".", "/", "r", "/">>, <<"..", "/", "r", "/">>, <<"/", "r", "/">>,
     <<"/", "/", "r", "/">>}

\* the parts of a file name between its dots
NameParts == {"m", "x", "py"}

\* self.path for a prefix and the parts of the name
PathOf(in) == in.prefix \o Join([i \in 1..Len(in.parts) |-> <<in.parts[i]>>], ".")

InitFileVars ==
    /\ u_pc = "input" /\ u_in \in [prefix : PathPrefixes, parts : {<<>>}] /\ u_out = <<>>

\* the file name has one more part
AddPart(p) ==
    /\ u_pc = "input" /\ Len(u_in.parts) <= MaxDots
    /\ u_in' = [u_in EXCEPT !.parts = Append(@, p)]
    /\ UNCHANGED <<u_pc, u_out>>
    /\ UNCHANGED otherThanUnit

\* self.fileInfo = self.inspect_file()
InspectFileStep ==
    /\ u_pc = "input" /\ u_in.parts # <<>>
    /\ u_out' = InspectFile(PathOf(u_in))
    /\ u_pc' = "done"
    /\ UNCHANGED u_in
    /\ UNCHANGED otherThanUnit

NextFile == (\E p \in NameParts : AddPart(p)) \/ InspectFileStep

InitFile == InitFileVars /\ IdleWalk /\ IdlePrune /\ IdleCalls /\ IdleMain /\ IdleClassify

SpecFile == InitFile /\ [][NextFile]_vars

-----------------------------------------------------------------------------
(* _f_definitions, lines 379-383: the nested-functions table of a definition.
   A definition is [name, body], body the definitions written directly in
   it; the other fields of a FunctionInfo do not depend on the nested table
   and are left out of the table's entries. *)

DefNames == {<<"f">>, <<"g">>}

FunctionDef(n) == [name |-> n, body |-> <<>>]

\* ast.walk: breadth first from the node itself, which is the first one
\* yielded; only the FunctionDef nodes pass the filter of line 379
RECURSIVE AstWalk(_)
AstWalk(todo) ==
    IF todo = <<>> THEN <<>>
    ELSE <<Head(todo)>> \o AstWalk(Tail(todo) \o Head(todo).body)

RemoveAt(list, i) == SubSeq(list, 1, i - 1) \o SubSeq(list, i + 1, Len(list))

\* lines 380-382: the loop removes from the list it iterates over; the list
\* iterator moves to the next index after every pass, also after a removal,
\* and list.remove(nested) removes the node itself (nodes compare by
\* identity), which sits at the iterator's index
RECURSIVE RemoveSameName(_, _, _)
RemoveSameName(list, i, name) ==
    IF i > Len(list) THEN list
    ELSE IF list[i].name = name
         THEN RemoveSameName(RemoveAt(list, i), i + 1, name)
         ELSE RemoveSameName(list, i + 1, name)

\* lines 379-382
NestedDefinitions(f) == RemoveSameName(AstWalk(<<f>>), 1, f.name)

\* funcs_info[name] = info: a later definition of the same name overwrites
SetInfo(funcs_info, name, info) ==
    [n \in DOMAIN funcs_info \cup {name} |-> IF n = name THEN info ELSE funcs_info[n]]

\* lines 326-385, the "functions" entries
RECURSIVE FDefinitions(_)
FDefinitions(functions_definitions) ==
    IF functions_definitions = <<>> THEN EmptyMap
    ELSE LET n == Len(functions_definitions)
             f == functions_definitions[n]
         IN  SetInfo(FDefinitions(SubSeq(functions_definitions, 1, n - 1)), f.name,
                     [functions |-> FDefinitions(NestedDefinitions(f))])

\* the last definition written at a nesting level can take one more
RECURSIVE CanNest(_, _)
CanNest(def, level) ==
    IF level = 1 THEN Len(def.body) < MaxNested
    ELSE def.body # <<>> /\ CanNest(def.body[Len(def.body)], level - 1)

RECURSIVE Nest(_, _, _)
Nest(def, level, n) ==
    IF level = 1 THEN [def EXCEPT !.body = Append(@, FunctionDef(n))]
    ELSE [def EXCEPT !.body[Len(def.body)] = Nest(@, level - 1, n)]

InitNestedVars ==
    /\ u_pc = "source" /\ u_in \in {FunctionDef(n) : n \in DefNames} /\ u_out = <<>>

\* the source has one more nested definition, after those written so far
WriteDef(n, level) ==
    /\ u_pc = "source" /\ CanNest(u_in, level)
    /\ u_in' = Nest(u_in, level, n)
    /\ UNCHANGED <<u_pc, u_out>>
    /\ UNCHANGED otherThanUnit

\* self._f_definitions([f]) for the top-level definition of the source
InspectDefinitions ==
    /\ u_pc = "source"
    /\ u_out' = FDefinitions(<<u_in>>)
    /\ u_pc' = "done"
    /\ UNCHANGED u_in
    /\ UNCHANGED otherThanUnit

NextNested ==
    (\E n \in DefNames, level \in 1..MaxNestDepth : WriteDef(n, level)) \/ InspectDefinitions

InitNested == InitNestedVars /\ IdleWalk /\ IdlePrune /\ IdleCalls /\ IdleMain /\ IdleClassify

SpecNested == InitNested /\ [][NextNested]_vars

-----------------------------------------------------------------------------
(* inspect_dependencies with wildcard imports, lines 219-249, and
   list_functions_from_module, utils.py lines 264-281. The modules a wildcard
   can name are the environment: p is a file next to the inspected one with
   some top-level functions, k an installed module, any other name is not
   importable. *)

WildcardImport(m) == [from |-> m, name |-> <<"*">>, asname |-> None]

\* the names def'd at the top level of p.py
TopLevelFunctions(n) == [i \in 1..n |-> <<"f", ToString(i)>>]

\* dir(k) of the installed module, which dir sorts
DirOfInstalled == <<<<"iskeyword">>, <<"kwlist">>>>

\* utils.py lines 264-281: the file m.py next to the inspected file, else the
\* importable module m, else the import error of line 278
ListFunctionsFromModule(m, n) ==
    IF m = <<"p">> THEN [raised |-> "", functions |-> TopLevelFunctions(n), type |-> "internal"]
    ELSE IF m = <<"k">> THEN [raised |-> "", functions |-> DirOfInstalled, type |-> "external"]
    ELSE [raised |-> "ModuleNotFoundError", functions |-> <<>>, type |-> ""]

\* lines 234-239
WildcardDeps(stmt, listed) ==
    [i \in 1..Len(listed.functions) |->
        [from_module |-> stmt.from, import |-> listed.functions[i], alias |-> stmt.asname,
         type |-> listed.type]]

\* current_dep before its first assignment
Unbound == [unbound |-> TRUE]

\* lines 231-247: current_dep is a local of the method, assigned in both
\* branches and appended once more at line 247 after either branch; reading
\* it before any assignment raises UnboundLocalError
RECURSIVE DependenciesLoop(_, _, _, _, _)
DependenciesLoop(stmts, i, current_dep, dep_info, n) ==
    IF i > Len(stmts) THEN [raised |-> "", out |-> dep_info]
    ELSE IF Contains(stmts[i].name, <<"*">>)
    THEN IF ListFunctionsFromModule(stmts[i].from, n).raised # ""
         THEN [raised |-> ListFunctionsFromModule(stmts[i].from, n).raised, out |-> <<>>]
         ELSE IF ListFunctionsFromModule(stmts[i].from, n).functions = <<>>
         THEN IF current_dep = Unbound
              THEN [raised |-> "UnboundLocalError", out |-> <<>>]
              ELSE DependenciesLoop(stmts, i + 1, current_dep, Append(dep_info, current_dep), n)
         ELSE DependenciesLoop(stmts, i + 1,
                  WildcardDeps(stmts[i], ListFunctionsFromModule(stmts[i].from, n))
                      [Len(ListFunctionsFromModule(stmts[i].from, n).functions)],
                  Append(dep_info \o WildcardDeps(stmts[i], ListFunctionsFromModule(stmts[i].from, n)),
                         WildcardDeps(stmts[i], ListFunctionsFromModule(stmts[i].from, n))
                             [Len(ListFunctionsFromModule(stmts[i].from, n).functions)]), n)
    ELSE DependenciesLoop(stmts, i + 1, InspectDependencies(stmts, i, {})[1],
             Append(dep_info, InspectDependencies(stmts, i, {})[1]), n)

DepStmts ==
    {PlainImport(<<"b">>), FromImport(<<"p">>, <<"b">>), WildcardImport(<<"p">>),
     WildcardImport(<<"k">>), WildcardImport(<<"nosuch">>)}

InitDepsVars ==
    /\ u_pc = "source" /\ u_in \in [stmts : {<<>>}, n : 0..MaxSymbols] /\ u_out = <<>>

\* the source has one more import statement
WriteImport(stmt) ==
    /\ u_pc = "source" /\ Len(u_in.stmts) < MaxImports
    /\ u_in' = [u_in EXCEPT !.stmts = Append(@, stmt)]
    /\ UNCHANGED <<u_pc, u_out>>
    /\ UNCHANGED otherThanUnit

\* self.depInfo = self.inspect_dependencies()
InspectDeps ==
    /\ u_pc = "source"
    /\ u_out' = DependenciesLoop(u_in.stmts, 1, Unbound, <<>>, u_in.n)
    /\ u_pc' = "done"
    /\ UNCHANGED u_in
    /\ UNCHANGED otherThanUnit

NextDeps == (\E stmt \in DepStmts : WriteImport(stmt)) \/ InspectDeps

InitDeps == InitDepsVars /\ IdleWalk /\ IdlePrune /\ IdleCalls /\ IdleMain /\ IdleClassify

SpecDeps == InitDeps /\ [][NextDeps]_vars

-----------------------------------------------------------------------------
(* The cross-file search of extract_relations, step by step: file_in_call,
   extract_data and extract_local_function, utils.py lines 362-425, as a
   depth-first walk with the pending calls on a stack. The aggregate holds
   three modules m1, m2, m3 of one function each; the search starts from the
   calls of a function of o.py and looks for an invocation of t.py. *)

SearchModules == <<"m1", "m2", "m3">>

TargetBase == <<"t", ".">>
OriginBase == <<"o", ".">>

CallOf(module) == <<module, ".", "f">>

SearchCalls == {CallOf(m) : m \in {"m1", "m2", "m3", "t", "o"}}

\* call_list of the directory: one function f per module, with its calls
AggregateOf(locals) ==
    [i \in 1..Len(SearchModules) |->
        [path  |-> FilePath(<<SearchModules[i], ".", "py">>),
         graph |-> IF locals[i] = <<>> THEN <<>>
                   ELSE <<[name |-> <<"f">>, local |-> locals[i]]>>]]

RECURSIVE LocalCalls(_, _)
\* extract_data over the functions of a module, lines 397-411: their "local"
\* calls, in order
LocalCalls(graph, j) ==
    IF j > Len(graph) THEN <<>> ELSE graph[j].local \o LocalCalls(graph, j + 1)

Pending(calls, level) == [k \in 1..Len(calls) |-> [call |-> calls[k], level |-> level]]

Searching(stack, last) == [stack |-> stack, found |-> FALSE, last |-> last]

\* what file_in_call reads of one call, lines 372-383: the two textual tests
\* and the calls of the module the call names (find_module_calls, then
\* extract_data over its functions). None of it changes during a search.
CallFacts(call, call_list) ==
    [direct |-> InStr(TargetBase, call) /\ ~InStr(OriginBase, call),
     own    |-> InStr(OriginBase, call),
     extern |-> LocalCalls(FindModuleCalls(Split(call, ".")[1], call_list).graph, 1)]

FactsOf(call_list) == [call \in SearchCalls |-> CallFacts(call, call_list)]

\* file_in_call with the module lookup allowed at the depth limit too
FileInCallStepMutant(top, rest, facts) ==
    IF facts[top.call].direct
    THEN [stack |-> <<>>, found |-> TRUE, last |-> [kind |-> "match", level |-> top.level]]
    ELSE IF facts[top.call].own
    THEN Searching(rest, [kind |-> "own", level |-> top.level])
    ELSE IF top.level <= LevelDepth
    THEN Searching(Pending(facts[top.call].extern, top.level + 1) \o rest,
                   [kind |-> "lookup", level |-> top.level])
    ELSE Searching(rest, [kind |-> "limit", level |-> top.level])

\* file_in_call on the call on top of the stack, lines 362-394: a match ends
\* the search (every caller returns at once on flag_found); a call into the
\* origin file is dropped; below the depth limit the calls of the module the
\* call names are searched next, one level deeper, before the calls left
FileInCallStep(top, rest, facts) ==
    IF facts[top.call].direct
    THEN [stack |-> <<>>, found |-> TRUE, last |-> [kind |-> "match", level |-> top.level]]
    ELSE IF facts[top.call].own
    THEN Searching(rest, [kind |-> "own", level |-> top.level])
    ELSE IF top.level < LevelDepth
    THEN Searching(Pending(facts[top.call].extern, top.level + 1) \o rest,
                   [kind |-> "lookup", level |-> top.level])
    ELSE Searching(rest, [kind |-> "limit", level |-> top.level])

\* the call of o.py the search starts from: into the first module, into the
\* target or into o.py itself
StartCalls == {CallOf(m) : m \in {"m1", "t", "o"}}

InitSearchVars ==
    /\ u_pc = "source"
    /\ u_in = [start |-> <<>>, locals |-> [i \in 1..Len(SearchModules) |-> <<>>], facts |-> <<>>]
    /\ u_out = <<>>

\* the function of module i has one more call
WriteCall(i, call) ==
    /\ u_pc = "source" /\ Len(u_in.locals[i]) < MaxLocal
    /\ \A k \in (i + 1)..Len(SearchModules) : u_in.locals[k] = <<>>
    /\ u_in' = [u_in EXCEPT !.locals[i] = Append(@, call)]
    /\ UNCHANGED <<u_pc, u_out>>
    /\ UNCHANGED otherThanUnit

\* extract_relations starts on the calls of a function of o.py, lines 440-443
StartSearch(call) ==
    /\ u_pc = "source"
    /\ u_in' = [u_in EXCEPT !.start = <<call>>, !.facts = FactsOf(AggregateOf(u_in.locals))]
    /\ u_out' = Searching(Pending(<<call>>, 0), [kind |-> "start", level |-> 0])
    /\ u_pc' = "search"
    /\ UNCHANGED otherThanUnit

\* one call of file_in_call
SearchStep ==
    /\ u_pc = "search" /\ ~u_out.found /\ u_out.stack # <<>>
    /\ u_out' = FileInCallStep(Head(u_out.stack), Tail(u_out.stack), u_in.facts)
    /\ UNCHANGED <<u_pc, u_in>>
    /\ UNCHANGED otherThanUnit

\* extract_relations has the answer for this file: a match, or no call left
SearchReturns ==
    /\ u_pc = "search" /\ (u_out.found \/ u_out.stack = <<>>)
    /\ u_pc' = "done"
    /\ UNCHANGED <<u_in, u_out>>
    /\ UNCHANGED otherThanUnit

Search == SearchStep \/ SearchReturns

NextSearch ==
    \/ \E i \in 1..Len(SearchModules), call \in SearchCalls : WriteCall(i, call)
    \/ \E call \in StartCalls : StartSearch(call)
    \/ Search

InitSearch == InitSearchVars /\ IdleWalk /\ IdlePrune /\ IdleCalls /\ IdleMain /\ IdleClassify

\* the interpreter always takes the next step of a search it has started
SpecSearch == InitSearch /\ [][NextSearch]_vars /\ WF_vars(Search)

-----------------------------------------------------------------------------
(* One CodeInspection(...) of the directory walk, step by step: __init__,
   lines 35-47, inside the try block of main, lines 748-759 *)

\* the step of the construction that raises on the source, if any
StepFaults ==
    {"none", "parse", "controlflow", "dependencies", "classes", "functions", "body", "main"}

\* file_json with the report written before the main detection
FilesAfterStepMutant(files, key, e, step) ==
    IF step = "controlflow" THEN WriteFile(files, CfgPath(key, e), SourcePath(e))
    ELSE IF step = "body" THEN WriteFile(files, JsonPath(key, e), SourcePath(e))
    ELSE files

\* what a step that runs to its end writes: inspect_controlflow the text
\* artifact (lines 92-95), file_json the report (lines 309-311)
FilesAfterStep(files, key, e, step) ==
    IF step = "controlflow" THEN WriteFile(files, CfgPath(key, e), SourcePath(e))
    ELSE IF step = "json" THEN WriteFile(files, JsonPath(key, e), SourcePath(e))
    ELSE files

InitInspectVars ==
    /\ u_pc = "inspect"
    /\ u_in \in {e \in [dir : SubDirs, name : FileNames, fault : StepFaults] : IsCandidate(e.name)}
    /\ u_out = [done |-> <<>>, files |-> EmptyMap, dir_info |-> EmptyMap, log |-> <<>>]

\* the next assignment of __init__: the step raises, or runs to its end
InspectionStep ==
    /\ u_pc = "inspect"
    /\ LET step == InspectionSteps[Len(u_out.done) + 1]
       IN  IF FaultOf(u_in) = step
           THEN u_pc' = "raised" /\ UNCHANGED u_out
           ELSE /\ u_out' = [u_out EXCEPT
                               !.done = Append(@, step),
                               !.files = FilesAfterStep(@, OutDirKey(u_in), u_in, step)]
                /\ u_pc' = IF Len(u_out.done) + 1 = Len(InspectionSteps)
                           THEN "returned" ELSE "inspect"
    /\ UNCHANGED u_in
    /\ UNCHANGED otherThanUnit

\* lines 753-756: the report joins dir_info
AppendReport ==
    /\ u_pc = "returned"
    /\ u_out' = [u_out EXCEPT !.dir_info = DirInfoAfter(@, u_in)]
    /\ u_pc' = "appended"
    /\ UNCHANGED u_in
    /\ UNCHANGED otherThanUnit

\* lines 757-759: the handler prints and the walk goes on
LogFileError ==
    /\ u_pc = "raised"
    /\ u_out' = [u_out EXCEPT !.log = Append(@, [kind |-> "file_error", what |-> u_in.name])]
    /\ u_pc' = "logged"
    /\ UNCHANGED u_in
    /\ UNCHANGED otherThanUnit

NextInspect == InspectionStep \/ AppendReport \/ LogFileError

InitInspect == InitInspectVars /\ IdleWalk /\ IdlePrune /\ IdleCalls /\ IdleMain /\ IdleClassify

SpecInspect == InitInspect /\ [][NextInspect]_vars

-----------------------------------------------------------------------------
(* _formatFlow (src/code_inspector.py 612-670): the text of a control flow
   graph is a sequence of symbols; indices are 1-based here, 0-based in the
   source *)

FlowSymbols == {"<", ">", "\n", "a"}

FlowTexts == UNION {[1..n -> FlowSymbols] : n \in 0..MaxFlowLen}

Spaces(n) == [i \in 1..n |-> " "]

\* lines 625-633
is_next_list(index, maxIndex, buf) ==
    IF index = maxIndex THEN FALSE
    ELSE IF buf[index + 1] = "<" THEN TRUE
    ELSE IF index < maxIndex - 1
         THEN buf[index + 1] = "\n" /\ buf[index + 2] = "<"
         ELSE FALSE

\* shifts[-1] of an empty list is an IndexError
FormatRaises(st) == [st EXCEPT !.raised = TRUE]

\* lines 636-669: the loop body for the symbol at st.index
FormatSymbol(st, s) ==
    LET index == st.index
        sym == s[index]
        max_index == Len(s)
        next == [st EXCEPT !.index = index + 1]
    IN  IF sym = "\n"
        THEN IF st.shifts = <<>> THEN FormatRaises(st)
             ELSE LET last_shift == st.shifts[Len(st.shifts)]
                      more == index < max_index /\ s[index + 1] \notin {"<", ">"}
                  IN  [next EXCEPT
                         !.result = @ \o <<sym>> \o Spaces(last_shift)
                                      \o (IF more THEN <<" ">> ELSE <<>>),
                         !.pos = last_shift + (IF more THEN 1 ELSE 0)]
        ELSE IF sym = "<"
        THEN [next EXCEPT
                !.shifts = IF st.next_is_list THEN @ ELSE Append(@, st.pos),
                !.next_is_list = FALSE,
                !.pos = @ + 1,
                !.result = Append(@, sym)]
        ELSE IF sym = ">"
        THEN IF st.shifts = <<>> THEN FormatRaises(st)
             ELSE LET shift == st.shifts[Len(st.shifts)]
                      list == is_next_list(index, max_index, s)
                  IN  [next EXCEPT
                         !.result = @ \o <<"\n">> \o Spaces(shift) \o <<sym>>,
                         !.pos = shift + 1,
                         !.shifts = IF list THEN @ ELSE SubSeq(@, 1, Len(@) - 1),
                         !.next_is_list = list]
        ELSE [next EXCEPT !.result = Append(@, sym), !.pos = @ + 1]

\* lines 620-623
FormatStart ==
    [index |-> 1, shifts |-> <<>>, pos |-> 0, next_is_list |-> FALSE,
     result |-> <<>>, raised |-> FALSE]

InitFormatVars ==
    /\ u_pc = "format"
    /\ u_in \in FlowTexts
    /\ u_out = FormatStart

\* one pass of the for loop of line 636
FormatStep ==
    /\ u_pc = "format"
    /\ u_out.index <= Len(u_in)
    /\ u_out' = FormatSymbol(u_out, u_in)
    /\ u_pc' = IF u_out'.raised THEN "raised" ELSE "format"
    /\ UNCHANGED u_in
    /\ UNCHANGED otherThanUnit

\* line 670
FormatReturns ==
    /\ u_pc = "format"
    /\ u_out.index > Len(u_in)
    /\ u_pc' = "done"
    /\ UNCHANGED <<u_in, u_out>>
    /\ UNCHANGED otherThanUnit

NextFormat == FormatStep \/ FormatReturns

InitFormat == InitFormatVars /\ IdleWalk /\ IdlePrune /\ IdleCalls /\ IdleMain /\ IdleClassify

SpecFormat == InitFormat /\ [][NextFormat]_vars

InitWalk == InitWalkVars /\ IdlePrune /\ IdleCalls /\ IdleMain /\ IdleClassify /\ IdleUnit

SpecWalk == InitWalk /\ [][NextWalk]_vars

InitPrune == InitPruneVars /\ IdleWalk /\ IdleCalls /\ IdleMain /\ IdleClassify /\ IdleUnit

SpecPrune == InitPrune /\ [][NextPrune]_vars

-----------------------------------------------------------------------------
(* Claims about the orchestrator, checked under SpecWalk *)

\* C1: in directory mode a file whose inspection raises does not stop the
\* walk: every candidate file the walk has reached and whose inspection
\* succeeded has its JSON artifact and is in the aggregate list of its
\* output-subdirectory key; every candidate whose inspection raised is in no
\* aggregate list and is named in a diagnostic; no inspection failure ends the
\* process (the only traceback of a directory run comes after the walk).
C1_WalkIsolatesFailures ==
    w_args.kind = "dir" =>
        /\ \A i \in 1..Len(w_visited) :
              LET e == w_visited[i]
                  k == OutDirKey(e)
              IN  IsCandidate(e.name) =>
                    IF InspectionOk(e)
                    THEN /\ JsonPath(k, e) \in DOMAIN w_files
                         /\ k \in DOMAIN w_dir_info
                         /\ InSeq(SourcePath(e), w_dir_info[k])
                    ELSE /\ \A d \in DOMAIN w_dir_info : ~InSeq(SourcePath(e), w_dir_info[d])
                         /\ InSeq([kind |-> "file_error", what |-> e.name], w_log)
        /\ \A j \in 1..Len(w_log) :
              w_log[j].kind = "traceback" =>
                  w_log[j].what \in {<<"generate_output_html">>, <<"requirements">>,
                                     <<"directory_tree">>}

\* C1 witness: a walk that met a failing file first and then inspected a good
\* file of the same directory
C1_Witness ==
    /\ w_args.kind = "dir" /\ Len(w_visited) = 2
    /\ IsCandidate(w_visited[1].name) /\ ~InspectionOk(w_visited[1])
    /\ IsCandidate(w_visited[2].name) /\ InspectionOk(w_visited[2])
    /\ w_visited[1].dir = w_visited[2].dir
    /\ JsonPath(OutDirKey(w_visited[2]), w_visited[2]) \in DOMAIN w_files
    /\ w_dir_info[OutDirKey(w_visited[2])] = <<SourcePath(w_visited[2])>>

\* C2: a run whose input path exists never ends in an uncaught exception
C2_ExistingInputNeverCrashes ==
    w_args.kind \in {"file", "dir"} => w_pc # "crashed"

\* C4: a run rejected for its input path printed the diagnostic, wrote no
\* output, inspected no file and ended with a non-success exit status
C4_RejectedInputExitsNonZero ==
    w_pc = "exited" =>
        /\ Len(w_log) = 1 /\ w_log[1].kind = "diagnostic"
        /\ DOMAIN w_files = {} /\ w_visited = <<>>
        /\ w_exit # NoExit /\ w_exit # 0

-----------------------------------------------------------------------------
(* Claims about prune_json, checked under SpecPrune *)

RECURSIVE AllValuesTruthy(_)
\* every key of j, and of every mapping reached from j through mappings, maps
\* to a truthy value
AllValuesTruthy(j) ==
    j.t = "dict" =>
        \A i \in 1..Len(j.items) :
            Truthy(j.items[i]) /\ AllValuesTruthy(j.items[i])

\* C5: pruning a pruned tree changes nothing, and after pruning every key of
\* every mapping reached through mappings maps to a non-empty value
C5_PruneIdempotent ==
    p_pc = "pruned" => (p_twice = p_once /\ AllValuesTruthy(p_once))

\* C5 witness: a pruned mapping that lost entries and kept a nested mapping
C5_Witness ==
    /\ p_pc = "pruned" /\ p_tree.t = "dict" /\ p_once # p_tree
    /\ \E i \in 1..Len(p_once.items) : p_once.items[i].t = "dict"

-----------------------------------------------------------------------------
(* Claims about rendering and contextual resolution *)

\* C3: whatever the shape of a call target and wherever the call occurs
\* (function, method or module body, also as the right-hand side of an
\* assignment whose variable leads a later call), rendering and resolving
\* the calls of the scope raises nothing.
C3_ResolutionNeverRaises ==
    r_pc = "done" => r_out.raised = ""

RECURSIVE FirstDeclaring(_, _, _, _, _)
\* the first class of the file declaring m that a declaration-order
\* depth-first search over extend[i..] reaches, <<>> if there is none; bases
\* that are not classes of the file are passed over, classes in seen are not
\* entered again
FirstDeclaring(extend, i, m, classes, seen) ==
    IF i > Len(extend) THEN <<>>
    ELSE LET ext == extend[i]
         IN  IF ext \notin DOMAIN classes \/ ext \in seen
             THEN FirstDeclaring(extend, i + 1, m, classes, seen)
             ELSE IF InSeq(m, classes[ext].methods) THEN ext
             ELSE LET below == FirstDeclaring(classes[ext].extend, 1, m, classes,
                                              seen \cup {ext})
                  IN  IF below # <<>> THEN below
                      ELSE FirstDeclaring(extend, i + 1, m, classes, seen)

\* C9: in a method of a class with a non-empty base list, super().m()
\* resolves to exactly "<file-base>.P.m", P being the first class of the file
\* declaring m that the declaration-order depth-first search over the bases
\* reaches.
C9_SuperResolvesToFirstAncestor ==
    (r_pc = "done" /\ r_scope.kind = "method" /\ r_file.classes # EmptyMap
       /\ r_file.classes[r_scope.class].extend # <<>>) =>
        LET m == <<r_scope.stmts[1].func.id>>
            P == FirstDeclaring(r_file.classes[r_scope.class].extend, 1, m, r_file.classes, {})
        IN  P # <<>> =>
              r_out = Appended(<<r_file.fb \o <<".">> \o P \o <<".">> \o m>>)

IsPlain(imp) == imp.from = <<>> /\ imp.asname = None

\* C10: in a file whose imports are plain imports, one of them `import b`,
\* every dependency record for b has type internal when b.py lies beside the
\* file and external otherwise, and a call b.start() of the file resolves to
\* the single name "b.start".
C10_PlainImportQualifies ==
    (r_pc = "done" /\ r_file.classes = EmptyMap
       /\ InSeq(PlainImport(<<"b">>), r_file.imports)
       /\ (\A i \in 1..Len(r_file.imports) : IsPlain(r_file.imports[i]))
       /\ r_scope.stmts = <<ExprStmt(Attribute(Name("b"), "start"))>>) =>
        /\ \A i \in 1..Len(r_deps) :
              r_deps[i].import = <<"b">> =>
                  r_deps[i].type = IF <<"b", ".", "py">> \in r_file.existing
                                   THEN "internal" ELSE "external"
        /\ r_out = Appended(<<<<"b", ".", "start">>>>)

-----------------------------------------------------------------------------
(* Claims about main-entry detection, checked under SpecMain *)

\* the first conditional of the file that compares against "__main__", 0 if none
FirstMainIf(ifs) ==
    IF \E i \in 1..Len(ifs) : ifs[i].test = "main"
    THEN CHOOSE i \in 1..Len(ifs) :
            ifs[i].test = "main" /\ \A j \in 1..(i - 1) : ifs[j].test # "main"
    ELSE 0

\* C7: main_flag is 1 exactly when some top-level conditional compares
\* against "__main__", whatever conditionals precede or follow it; then
\* main_function is "<file-base>.<name>" for the first call of that
\* conditional's body, whatever else the body holds; without such a
\* conditional main_flag is 0, main_function is empty and there is no type.
C7_MainEntryDetection ==
    m_pc = "done" =>
        LET i == FirstMainIf(m_ifs)
        IN  IF i # 0
            THEN /\ m_info.main_flag = 1
                 /\ LET names == RenderAll(IfBodyFuncs(m_ifs[i].body), 1)
                    IN  (names # <<>> /\ names[1] # None) =>
                            m_info.main_function = m_fb \o <<".">> \o names[1]
            ELSE /\ m_info.main_flag = 0
                 /\ m_info.main_function = <<>>
                 /\ m_info.type = ""

\* the name of the entry call: main_function without "<file-base>."
EntryName(info, fb) ==
    IF info.main_function = <<>> THEN <<>>
    ELSE SubSeq(info.main_function, Len(fb) + 2, Len(info.main_function))

\* C8 as stated: with main_flag 1 the type is "test" exactly when "test"
\* appears in the entry call's name or in the file's base name, "script"
\* otherwise.
C8_TestWhenTestInEntry ==
    (m_pc = "done" /\ m_info.main_flag = 1) =>
        m_info.type = IF InStr(<<"test">>, EntryName(m_info, m_fb)) \/ InStr(<<"test">>, m_fb)
                      THEN "test" ELSE "script"

\* C8: with main_flag 1 the type is "test" exactly when "unittest" appears
\* in the entry call's name or "test" appears in the file's base name, and
\* "script" otherwise.
C8_TestWhenUnittestInEntry ==
    (m_pc = "done" /\ m_info.main_flag = 1) =>
        m_info.type = IF InStr(<<"unittest">>, EntryName(m_info, m_fb)) \/ InStr(<<"test">>, m_fb)
                      THEN "test" ELSE "script"

\* C8 witness: app.py whose main block calls test_all() is a script, and
\* app.py calling unittest.main() would not be
C8_Witness ==
    /\ m_pc = "done" /\ m_fb = <<"app">> /\ m_info.main_flag = 1
    /\ m_info.main_function = <<"app", ".", "test_all">>
    /\ m_info.type = "script"

-----------------------------------------------------------------------------
(* Claims about the classifier, checked under SpecClassify *)

IsMainScript(rec) == rec.type = "script" /\ rec.structure = "main"

\* C6: in a directory of two main-bearing files main_a.py and main_b.py,
\* neither a service nor a test, where the main block of main_b calls
\* main_a.main() and main_a invokes no other main file, main_a is marked
\* secondary and the only script record with structure main is that of
\* main_b.
C6_InvokedMainIsSecondary ==
    (/\ c_pc = "done" /\ Len(c_dir_info) = 2
     /\ \A i \in 1..2 : c_dir_info[i].main_info.main_flag = 1
     /\ Len(c_main_files) = 2
     /\ \E b \in 1..2 :
           /\ c_dir_info[b].path = FilePath(NameB)
           /\ c_dir_info[b].main_info.main_function = <<"main_b", ".", "main_a", ".", "main">>
     /\ \E a \in 1..2 :
           /\ c_dir_info[a].path = FilePath(NameA)
           /\ \A f \in 1..Len(c_dir_info[a].functions) :
                 \A k \in 1..Len(c_dir_info[a].functions[f].calls) :
                     ~InStr(<<"main_b", ".">>, c_dir_info[a].functions[f].calls[k])) =>
        /\ \A i \in 1..2 : c_main_files[i] = FilePath(NameA) => c_secondary[i] = 1
        /\ SelectSeq(c_out, IsMainScript)
             = <<SoftInfo("script", "run", RunOf(FilePath(NameB)), "has_structure", "main")>>

-----------------------------------------------------------------------------
(* C11 *)

\* a dependency record of elem names a member of the service-dependency set,
\* whatever its case
HasServiceDep(elem) ==
    \E i \in 1..Len(elem.dependencies) :
        \/ /\ elem.dependencies[i].import # <<>>
           /\ Lower(elem.dependencies[i].import) \in ServerDependencies
        \/ /\ elem.dependencies[i].from_module # <<>>
           /\ Lower(elem.dependencies[i].from_module) \in ServerDependencies

\* the service record of the file last checked
LastServiceRecord ==
    [type |-> "service", key |-> "run", value |-> <<"python ">> \o u_in.elem.path,
     skey |-> "has_structure", structure |-> u_in.has_structure]

\* C11: after any sequence of service checks, a checked file one of whose
\* import or source-module names is, case-insensitively, a member of the
\* service-dependency set is flagged and has its record {type: service,
\* run: "python <path>", has_structure: main|body} in the list, and the list
\* holds no two equal service records, also when the same file is checked
\* again.
C11_ServiceRecordOnce ==
    /\ (u_in.n > 0 /\ HasServiceDep(u_in.elem)) =>
           (u_out.flag /\ \E i \in 1..Len(u_out.info) : u_out.info[i] = LastServiceRecord)
    /\ \A i, j \in 1..Len(u_out.info) :
           (i # j /\ u_out.info[i].type = "service") => u_out.info[i] # u_out.info[j]

\* the same service file was checked twice in a row with the same structure;
\* the name matched differs from the set member by its case
C11_Witness ==
    /\ u_in.n >= 2
    /\ u_in.again
    /\ \E i \in 1..Len(u_in.elem.dependencies) : u_in.elem.dependencies[i].import = <<"Flask">>
    /\ u_out.flag
    /\ Cardinality({i \in 1..Len(u_out.info) : u_out.info[i] = LastServiceRecord}) = 1

-----------------------------------------------------------------------------
(* C12 *)

\* the types of the records of the list reduced
TypesIn(list) == {list[i].type : i \in 1..Len(list)}

\* C12: extract_software_type returns the type of a library or package record
\* if the list holds one, whatever else it holds and in whatever order; else
\* "service" if it holds a service record; else "script" if it holds a record
\* whose type contains "script"; else "not found".
C12_DominantType ==
    u_pc = "done" =>
        LET types == TypesIn(u_in)
        IN  IF types \cap {"library", "package"} # {}
            THEN u_out \in types \cap {"library", "package"}
            ELSE IF "service" \in types THEN u_out = "service"
            ELSE IF types \cap {"script", "script without main"} # {} THEN u_out = "script"
            ELSE u_out = "not found"

\* a package record after a service record and a script record wins
C12_Witness ==
    /\ u_pc = "done" /\ Len(u_in) = 3
    /\ u_in[1].type = "service" /\ u_in[2].type = "script" /\ u_in[3].type = "package"
    /\ u_out = "package"

-----------------------------------------------------------------------------
(* C13 *)

\* the file name of the inspected path, as a string
InspectedName == Join([i \in 1..Len(u_in.parts) |-> <<u_in.parts[i]>>], ".")

\* C13: for any inspected source file name the report's path is absolute,
\* fileNameBase is the part of the name before its first "." and extension is
\* the whole substring after the first "." (also with several dots).
C13_FileFields ==
    (u_pc = "done" /\ Len(u_in.parts) >= 2) =>
        /\ u_out.raised = ""
        /\ Head(u_out.path) = "/"
        /\ u_out.fileNameBase = SubSeq(InspectedName, 1, FirstIndex(InspectedName, ".") - 1)
        /\ u_out.extension =
               SubSeq(InspectedName, FirstIndex(InspectedName, ".") + 1, Len(InspectedName))

-----------------------------------------------------------------------------
(* C14 and C15, checked under SpecWalk *)

\* C14: a failure of the requirements discovery is caught and reported by a
\* diagnostic, and the run continues to the classification and the aggregate
\* output: it never ends in a traceback of the requirements step.
C14_RequirementsFailureDegrades ==
    \A i \in 1..Len(w_log) :
        (w_args.kind = "dir" /\ w_log[i].what = <<"requirements">>) =>
            /\ w_log[i].kind = "diagnostic"
            /\ w_pc # "crashed"

\* the outputs holding the call list
CallGraphArtifacts == {x \in DOMAIN w_files : w_files[x] = Generated(<<"call_list">>)}

\* C15: a run that completed emitted a separate call-graph artifact exactly
\* when the call-list flag was set, in single-file and in directory mode and
\* whatever the html-output flag.
C15_CallListArtifact ==
    (w_pc = "done" /\ w_args.kind \in {"file", "dir"}) =>
        (w_args.call_list <=> CallGraphArtifacts # {})

-----------------------------------------------------------------------------
(* C16 and C17, checked under SpecAncestor; C18 under SpecResolve; C19 under
   SpecAlias *)

\* the raw call names of the inspected scope, before contextual resolution
RawCalls ==
    IF r_scope.kind = "body" THEN BodyRawCalls(r_scope.stmts)
    ELSE FunctionRawCalls(r_scope.stmts)

\* C16: the ancestor search terminates for every class table, also when the
\* declared base lists are cyclic: the inspection of the scope never ends in
\* the interpreter's recursion limit.
C16_AncestorSearchTerminates ==
    r_pc = "done" => r_out.raised # "RecursionError"

\* the inspected call is super().m()
IsSuperCall == Contains(RawCalls[1], <<"super", "()">>)

\* C17: a base that is not a class of the file and does not expose m is not
\* an error for the ancestor search of super().m() or Class.m(): the scope's
\* inspection does not raise on it, and when no base reached declares m the
\* raw call name of super().m() is left in the scope's call list.
C17_UnknownBaseIsNotAnError ==
    r_pc = "done" =>
        /\ r_out.raised # "KeyError"
        /\ (/\ r_out.raised = "" /\ IsSuperCall
            /\ <<r_scope.stmts[1].func.id>> \notin StrAttributes
            /\ r_file.classes[r_scope.class].extend # <<>>
            /\ FirstDeclaring(r_file.classes[r_scope.class].extend, 1,
                              <<r_scope.stmts[1].func.id>>, r_file.classes, {}) = <<>>)
           => r_out.out = <<GetFuncName(r_scope.stmts[1].func)>>

\* C18: contextual resolution applies one rule per raw call name: the
\* resolved call list of a scope holds at most one entry per raw call name,
\* for every dependency table and every class table.
C18_OneEntryPerRawCall ==
    (r_pc = "done" /\ r_out.raised = "") => Len(r_out.out) <= Len(RawCalls)

\* C19: the final calls list of a function holds no resolved name twice, also
\* when two distinct raw call names resolve to the same name (here with every
\* raw call name resolved to one entry).
C19_ResolvedCallsDistinct ==
    (r_pc = "done" /\ r_out.raised = "" /\ r_scope.kind \in {"function", "method"}
       /\ Len(r_out.out) = Len(RawCalls)) =>
        \A i, j \in 1..Len(r_out.out) : i # j => r_out.out[i] # r_out.out[j]

-----------------------------------------------------------------------------
(* C20, checked under SpecNested *)

\* no entry of the table, at any level, has its own name in its nested table
RECURSIVE NoSelfEntry(_)
NoSelfEntry(funcs_info) ==
    \A n \in DOMAIN funcs_info :
        /\ n \notin DOMAIN funcs_info[n].functions
        /\ NoSelfEntry(funcs_info[n].functions)

\* C20: for every definition f, the nested-functions table of f has no entry
\* for a nested definition named like f, wherever that definition sits among
\* f's nested definitions, the first one included.
C20_NoSelfNamedNested ==
    u_pc = "done" => NoSelfEntry(u_out)

-----------------------------------------------------------------------------
(* C21, checked under SpecDeps *)

\* the records the statements should add: one per enumerated symbol of a
\* wildcard, one per imported name otherwise
RECURSIVE ExpectedDeps(_, _, _)
ExpectedDeps(stmts, i, n) ==
    IF i > Len(stmts) THEN 0
    ELSE (IF Contains(stmts[i].name, <<"*">>)
          THEN Len(ListFunctionsFromModule(stmts[i].from, n).functions)
          ELSE 1) + ExpectedDeps(stmts, i + 1, n)

\* every wildcard of the source names a module that can be enumerated
AllListed ==
    \A i \in DOMAIN u_in.stmts :
        Contains(u_in.stmts[i].name, <<"*">>) => ListFunctionsFromModule(u_in.stmts[i].from, u_in.n).raised = ""

\* C21: a wildcard from-import whose module enumerates N symbols adds exactly
\* N dependency records (none when N = 0), a non-wildcard imported name adds
\* exactly one.
C21_WildcardAddsOnePerSymbol ==
    (u_pc = "done" /\ AllListed) =>
        /\ u_out.raised = ""
        /\ Len(u_out.out) = ExpectedDeps(u_in.stmts, 1, u_in.n)

-----------------------------------------------------------------------------
(* C22, C23, C24 and C29, checked under SpecClassify *)

IsResidual(rec) == rec.type = "script without main"

\* the residual records the files of the directory tree should yield
ResidualOf(files) ==
    [i \in 1..Len(files) |->
        [type |-> "script without main", import |-> FilePath(files[i].name)]]

ResidualSeen(recs) == [i \in 1..Len(recs) |-> [type |-> recs[i].type, import |-> recs[i].value]]

\* C22: residual "script without main" records are produced only if steps 1-5
\* produced no record: such a record never coexists with a record of another
\* type, and when there is no record of another type every discovered source
\* file has one.
C22_ResidualOnlyWhenNothingFound ==
    c_pc = "done" =>
        IF \E i \in 1..Len(c_out) : ~IsResidual(c_out[i])
        THEN \A i \in 1..Len(c_out) : ~IsResidual(c_out[i])
        ELSE ResidualSeen(c_out) = ResidualOf(c_dir.files)

\* steps 1-4 left a library or package, a service found in a main-bearing
\* file or a main-based script; the service records of the body-only files
\* (structure body) belong to the re-check of step 5
FoundBeforeStep5 ==
    \E i \in 1..Len(c_out) :
        \/ c_out[i].type \in {"package", "library"}
        \/ c_out[i].type = "service" /\ c_out[i].structure = "main"
        \/ IsMainScript(c_out[i])

IsBodyScript(rec) == rec.type = "script" /\ rec.structure = "body"

\* a report without main block whose module body calls something, and whose
\* dependencies do not carry the service signature
IsPlainBodyOnly(elem) ==
    elem.main_info.main_flag = 0 /\ elem.body_calls # <<>> /\ ~HasServiceDep(elem)

BodyScriptOf(elem) == SoftInfo("script", "run", RunOf(elem.path), "has_structure", "body")

\* C23: when steps 1-4 found no library/package, no service and no main-based
\* script, every body-only file without the service signature yields exactly
\* one script record with structure body, wherever it stands among the
\* body-only files and whether or not another body-only file carries the
\* service signature; when steps 1-4 found one of those, there is no
\* body-only script record.
C23_BodyScriptsWhenNothingFound ==
    c_pc = "done" =>
        LET plain == SelectSeq(c_dir_info, IsPlainBodyOnly)
        IN  SelectSeq(c_out, IsBodyScript) =
                IF FoundBeforeStep5 THEN <<>>
                ELSE [i \in 1..Len(plain) |-> BodyScriptOf(plain[i])]

\* the structure a record of that type may carry
StructuresOf(type) ==
    CASE type = "script without main" -> {"without_body"}
      [] type = "test"                -> {"main"}
      [] OTHER                        -> {"main", "body"}

\* C24: every service, script, test and "script without main" record carries
\* a field named has_structure whose value is main, body or without_body,
\* matching the step that produced it.
C24_RecordsCarryHasStructure ==
    c_pc = "done" =>
        \A i \in 1..Len(c_out) :
            c_out[i].type \in {"service", "script", "test", "script without main"} =>
                /\ c_out[i].skey = "has_structure"
                /\ c_out[i].structure \in StructuresOf(c_out[i].type)

\* C29: whenever the set of script candidates is not empty, the classifier
\* produces at least one script record with structure main.
C29_CandidatesYieldAMainScript ==
    (c_pc = "done" /\ c_main_files # <<>>) =>
        \E i \in 1..Len(c_out) : IsMainScript(c_out[i])

-----------------------------------------------------------------------------
(* C25, checked under SpecRelations *)

\* the report of the candidate main_files[i]
CandidateReport(i) == CHOOSE r \in {c_dir_info[k] : k \in 1..Len(c_dir_info)} : r.path = c_main_files[i]

BaseDot(path) == SplitExtRoot(PathBaseName(path)) \o <<".">>

\* the call graph of a holds a call naming b's base name followed by "." and
\* not a's own
Invokes(a, b) ==
    \E f \in 1..Len(a.functions) :
        \E k \in 1..Len(a.functions[f].calls) :
            /\ InStr(BaseDot(b.path), a.functions[f].calls[k])
            /\ ~InStr(BaseDot(a.path), a.functions[f].calls[k])

MainScriptOf(path) == SoftInfo("script", "run", RunOf(path), "has_structure", "main")

Occurrences(rec, recs) == Cardinality({i \in 1..Len(recs) : recs[i] = rec})

\* C25: for every ordered pair (A, B) of distinct script candidates such that
\* A's call graph invokes B, B is marked secondary and yields no script
\* record, also when A invokes several other candidates; and every candidate
\* that is not marked secondary yields exactly one script record
\* {run: "python <path>", has_structure: main}.
C25_EveryInvokedCandidateIsSecondary ==
    c_pc = "done" =>
        /\ \A a, b \in 1..Len(c_main_files) :
              (a # b /\ Invokes(CandidateReport(a), CandidateReport(b))) =>
                  /\ c_secondary[b] = 1
                  /\ Occurrences(MainScriptOf(c_main_files[b]), c_out) = 0
        /\ \A b \in 1..Len(c_main_files) :
              c_secondary[b] = 0 => Occurrences(MainScriptOf(c_main_files[b]), c_out) = 1

-----------------------------------------------------------------------------
(* C26, checked under SpecSearch *)

\* two modules of the aggregate call each other
CyclicAggregate ==
    \E i, j \in 1..Len(SearchModules) :
        /\ i # j
        /\ InSeq(CallOf(SearchModules[j]), u_in.locals[i])
        /\ InSeq(CallOf(SearchModules[i]), u_in.locals[j])

\* what the search did last respects the hop budget of 2
WithinHopBudget ==
    u_pc \in {"search", "done"} =>
        /\ u_out.last.kind = "lookup" => u_out.last.level < 2
        /\ u_out.last.kind = "match" => u_out.last.level <= 2
        /\ (/\ u_out.last.kind # "start"
            /\ InStr(TargetBase, u_in.start[1]) /\ ~InStr(OriginBase, u_in.start[1]))
              => (u_out.found /\ u_out.last = [kind |-> "match", level |-> 0])

\* C26: the cross-file search of one call terminates for every aggregate call
\* graph, also when module call graphs reference each other cyclically: a
\* direct textual match succeeds at hop 0, a module lookup is performed only
\* while fewer than 2 hops have been taken, and no match is reported that
\* needs more than 2 module lookups.
C26_SearchTerminatesWithinBudget ==
    /\ (u_pc = "search") ~> (u_pc = "done")
    /\ [](WithinHopBudget)

\* a search through two modules that call each other has ended, stopped by
\* the hop budget
C26_Witness ==
    /\ u_pc = "done" /\ CyclicAggregate
    /\ ~u_out.found /\ u_out.last = [kind |-> "limit", level |-> 2]

-----------------------------------------------------------------------------
(* C27, checked under SpecInspect *)

\* the order the steps are said to run in; "json" is the persistence
ClaimedOrder ==
    <<"parse", "file", "controlflow", "dependencies", "classes", "functions", "body",
      "main", "json">>

CfgOnDisk  == CfgPath(OutDirKey(u_in), u_in) \in DOMAIN u_out.files
JsonOnDisk == JsonPath(OutDirKey(u_in), u_in) \in DOMAIN u_out.files

\* C27: within one per-file inspection the steps run in the fixed order
\* parse, file metadata, control flow, dependencies, classes, functions,
\* body, main detection, persistence; the JSON artifact is written only after
\* every extraction step succeeded and the control-flow text before the
\* dependency extraction; a failure in a step after the control-flow step
\* leaves the control-flow text on disk, writes no JSON artifact and adds
\* nothing to the aggregate.
C27_StepsInOrderNoRollback ==
    /\ u_out.done = SubSeq(ClaimedOrder, 1, Len(u_out.done))
    /\ JsonOnDisk => \A i \in 1..8 : InSeq(ClaimedOrder[i], u_out.done)
    /\ InSeq("dependencies", u_out.done) => CfgOnDisk
    /\ (u_pc \in {"raised", "logged"} /\ InSeq("controlflow", u_out.done)) =>
          (CfgOnDisk /\ ~JsonOnDisk /\ u_out.dir_info = EmptyMap)

\* the body extraction of a file raised and the handler has logged it: the
\* steps up to the function extraction are done
C27_Witness ==
    /\ u_pc = "logged" /\ u_in.fault = "body"
    /\ u_out.done = SubSeq(ClaimedOrder, 1, 6)
    /\ CfgOnDisk /\ ~JsonOnDisk

-----------------------------------------------------------------------------
(* Claim about _formatFlow, checked under SpecFormat *)

\* the number of "<" still open after the first n symbols, -1 once a ">"
\* closes nothing
RECURSIVE OpenAfter(_, _)
OpenAfter(s, n) ==
    IF n = 0 THEN 0
    ELSE LET before == OpenAfter(s, n - 1)
         IN  IF before < 0 THEN 0 - 1
             ELSE IF s[n] = "<" THEN before + 1
             ELSE IF s[n] = ">" THEN before - 1
             ELSE before

Balanced(s) == OpenAfter(s, Len(s)) = 0

\* C28: for every input whose "<" and ">" are balanced, wherever its line
\* breaks stand (before the first "<" and after the last ">" included),
\* _formatFlow never reads the indent stack while it is empty, and the stack
\* is empty once the last symbol has been processed.
C28_BalancedFlowKeepsItsStack ==
    Balanced(u_in) =>
        /\ ~u_out.raised
        /\ u_pc = "done" => u_out.shifts = <<>>

\* the half of C28 that does hold: a balanced text that is formatted to its
\* end leaves the stack empty
BalancedFlowEndsEmpty ==
    (Balanced(u_in) /\ u_pc = "done") => u_out.shifts = <<>>

-----------------------------------------------------------------------------
(* Claim about the artifacts of a directory run, checked under SpecWalk *)

\* the candidates the walk has inspected without an exception
Inspected ==
    {i \in 1..Len(w_visited) : IsCandidate(w_visited[i].name) /\ InspectionOk(w_visited[i])}

\* C30: in directory mode every successfully inspected file has its own JSON
\* artifact: distinct source directories have distinct aggregate keys (output
\* subdirectories), and the artifact of an inspected file still holds the
\* report of that file, whatever other files were inspected.
C30_EveryFileKeepsItsArtifact ==
    w_args.kind = "dir" =>
        /\ \A i, j \in 1..Len(w_visited) :
              w_visited[i].dir # w_visited[j].dir =>
                  OutDirKey(w_visited[i]) # OutDirKey(w_visited[j])
        /\ \A i \in Inspected :
              LET path == JsonPath(OutDirKey(w_visited[i]), w_visited[i])
              IN  path \in DOMAIN w_files /\ w_files[path] = SourcePath(w_visited[i])

=============================================================================
